---- MODULE Spec2Model ----
(***************************************************************************)
(* A model of phyloscanner.py (src/phyloscanner.py): the per-window read   *)
(* processing loop and the functions it calls.                             *)
(*                                                                         *)
(* The script is modelled by several specifications that share the         *)
(* operators translated from the source:                                   *)
(*   Spec        the window loop from the top of an iteration to the       *)
(*               end of the extraction of each sample's reads (lines       *)
(*               1185-1394), with the read-name ledgers that are carried   *)
(*               from one window to the next;                              *)
(*   SpecFlow    the rest of an iteration (lines 1509-1935): the skips,    *)
(*               the calls of the external tools and the aborts;           *)
(*   SpecContam  the check for duplicates between samples and the          *)
(*               diagnosis of contaminants (lines 1444-1499);              *)
(*   SpecMerge   ProcessReadDict, ReadAlignedReadsIntoDicts and            *)
(*               ReMergeAlignedReads (lines 1032-1134);                    *)
(*   SpecWindow  one iteration from the reading of the contaminant file    *)
(*               to the processing of the read dicts (lines 1213-1507):    *)
(*               each sample's dict is handed over, the dicts are compared *)
(*               and then processed;                                       *)
(*   SpecPar     the body of the loop over the bam files (lines            *)
(*               1237-1435) run for all samples of a window at once, the   *)
(*               steps of the samples interleaved, up to the check for     *)
(*               duplicates;                                               *)
(*   SpecCoords  the window coordinates of each sample, from their         *)
(*               translation before the window loop (lines 756-885 and     *)
(*               964-1030) to the edges used to fetch and to slice the     *)
(*               reads (lines 1244-1267);                                  *)
(*   SpecNames   the names ProcessReadDict gives to the reads of a sample  *)
(*               and what ReadAlignedReadsIntoDicts reads back in them     *)
(*               (lines 1054-1083);                                        *)
(*   SpecRecomb  the recombination report of a window (lines 1798-1821);   *)
(*   SpecConfig  the checks of the options and the making of the window    *)
(*               coordinates before the loop (lines 375-633 and 811-841);  *)
(*   SpecFinish  an iteration from the gathered reads to its results       *)
(*               (lines 1511-1935), with the alignments themselves, and    *)
(*               the table of the window-width exploration (1979-2013).    *)
(***************************************************************************)
EXTENDS Integers, Sequences, FiniteSets, TLC

(***************************************************************************)
(* Bounds of the model.                                                    *)
(***************************************************************************)
\* the number of bam files (samples) of the run
NumSamples == 2
\* the number of distinct read names a bam file holds
NumNames == 2
\* the most reads BamFile.fetch returns in one window, all samples together
MaxFetch == 3
\* the most windows of a run
MaxWindows == 3
\* the largest window coordinate
MaxCoord == 4
\* the most read pairs kept in one sample's list of discarded pairs
MaxDiscardedPairs == 1
\* the number of bam files of the run whose hand-over SpecWindow follows
NumBams == 3
\* the most sequences a contaminant file of an earlier run lists
MaxFileEntries == 2
\* the most reads BamFile.fetch returns for one sample in SpecPar
MaxReads == 2
\* the longest mapping reference of a bam file in SpecCoords
MaxRefLength == 3
\* the most windows of --windows in SpecCoords
MaxCoordWindows == 2
\* the largest rank and the largest count of a name read back in SpecNames
MaxRank == 11
\* the largest count of a sequence in a dict that SpecNames names
MaxNameCount == 3
\* the most sequences of one sample in the final alignment
MaxAlnSeqs == 4
\* the largest recombination metric
MaxMetric == 2
\* the most integers of --windows in SpecConfig
MaxWindowArgs == 4
\* the largest integer of --windows in SpecConfig
MaxWindowArg == 2
\* the largest width and the largest overlap of the windows in SpecConfig
MaxWidth == 3
\* the largest start of the windows in SpecConfig
MaxStart == 2
\* the longest reference of the bam file in SpecConfig
MaxConfigRefLength == 5
\* the most windows the loop of lines 830-833 makes: one more than fit in
\* the longest reference
MaxAutoWindows == MaxConfigRefLength + 1

\* line 1186: float('-Inf'), below every window coordinate (all are >= 1)
NegInf == 0

\* BamFiles (line 722), by position
Samples == 1..NumSamples
\* the values of read.query_name
Names == 1..NumNames
\* BamFiles, by position, in SpecWindow
Bams == 1..NumBams
\* what ProcessRead returns for a read it does not want (line 1312)
None == <<>>
\* the sequences ProcessRead can return for a read in a window
ReadSeqs == {<<"A", "C">>, <<"A", "G">>}
\* the windows the user can list, here those of two positions: left < right,
\* both >= 1 (lines 524-541)
WindowChoices == {w \in (1..MaxCoord) \X (1..MaxCoord) : w[2] = w[1] + 1}

VARIABLES
  \* ---- the window loop (Spec) ----
  pc,               \* where the script is
  window,           \* the loop variable of line 1189
  opts,             \* args: the options of the run
  ThisWindow,       \* line 1208
  OverlapsLastWindow,                \* line 1209
  AllPatientsReadNamesInThisWindow,  \* line 1206
  AllPatientsReadNamesInLastWindow,  \* line 1205
  bam,              \* i+1 of the loop of line 1237
  fetched,          \* reads returned so far by BamFile.fetch in this
                    \* window (line 1275)
  matesSeen,        \* per name, with merge_paired_reads: how many of the
                    \* two mates of that name have been returned
  AllReads,         \* line 1270
  UniqueReads,      \* line 1271
  DiscardedReadPairsDict,            \* line 1176
  \* ---- history of the run, for stating properties ----
  yielded,          \* per sample: names for which ProcessRead returned a
                    \* sequence in this window
  credited,         \* per name: increments of UniqueReads[bam] made for
                    \* a read of that name in this window
  yieldedLast,      \* yielded, of the previous window
  inRun,            \* per sample: names that yielded a sequence in every
                    \* earlier window of the current run of overlapping
                    \* windows (empty in the first window of a run)
  sharesLast,       \* this window and the last one share a position
  runLength,        \* how many windows the current run of overlapping
                    \* windows has, this one included
  skippedTwice,     \* names of which a read was skipped at line 1330, for
                    \* this sample in this window
  disagreed,        \* names whose two mates were reported to disagree on
                    \* their overlap, for this sample in this window
  ended,            \* at the top of the loop: how the iteration before ended
  \* ---- the check for duplicates between samples (SpecContam) ----
  cpc,              \* where the script is
  FlagContaminants,                  \* line 383
  contaminant_count_ratio,           \* args, as <<numerator, denominator>>
  AllReadDictsInThisWindow,          \* line 1215: per sample, its ReadDict
  ReadDictsBefore,  \* the dicts as they were handed over (lines 1417 and
                    \* 1424)
  pair,             \* <<i, j>>: the two samples being compared
  todo,             \* reads of ReadDict1 the loop of line 1456 has yet
                    \* to visit
  DuplicateDetails,                  \* line 1449
  ContaminantReadsFound,             \* line 1450
  \* ---- the rest of an iteration (SpecFlow) ----
  fpc,              \* where the script is
  flowOpts,         \* the options of the run that the rest of an iteration
                    \* reads
  NumWindows,       \* NumCoords / 2 (line 1189)
  fwindow,          \* the loop variable of line 1189
  visited,          \* the windows whose iteration has begun, in order
  alignedFile,      \* what FileForReads holds after the call of mafft
  flowEnded,        \* how the iteration before this one ended
  \* ---- the merging of similar reads (SpecMerge) ----
  mpc,              \* where the script is
  merging_threshold,                 \* args
  min_read_count,                    \* args
  ReadDicts,        \* per sample, the ReadDict passed to ProcessReadDict
  AllReadsInThisWindow,              \* line 1213
  SeqAlignmentHere,                  \* line 1638
  lastMerged,       \* per sample, the dict after the latest merging step
  \* ---- one iteration, from the contaminant file on (SpecWindow) ----
  CheckDuplicates,                   \* line 385
  RecallContaminants,                \* line 384
  flag_contaminants_only,            \* args
  ContaminantFile,  \* the file ContaminantFilesByWindow has for this window,
                    \* as the list of its <<id, sequence>> entries; None if
                    \* it has none
  ContaminantReadsInput,             \* line 1221
  extracted,        \* per sample, UniqueReads as the loop over its reads
                    \* left it (line 1394)
  wbam,             \* i+1 of the loop of line 1237
  warned,           \* the samples for which the warning of line 1407 was
                    \* printed
  \* ---- the samples of a window side by side (SpecPar) ----
  bamReads,         \* per sample, the reads BamFile.fetch returns, in order
  thread,           \* per sample: where its run of the loop body is, its
                    \* AllReads and its UniqueReads
  recordedAlias,    \* the BamAlias of each tuple of
                    \* AllReadDictsInThisWindow (line 1417), in order
  \* ---- the window coordinates of each sample (SpecCoords) ----
  kpc,              \* where the script is
  coordArgs,        \* args, and what lines 376-382 make of them
  WindowCoords,                      \* line 545
  NumCoords,                         \* line 545
  BamFileRefLengths,                 \* line 1021, by position of the bam file
  CoordsString,     \* line 760: the output of the latest call of
                    \* TranslateCoordsCode, as a list of lines
  CoordsInRefs,                      \* lines 841, 885, 965
  kbam,             \* i+1 of the loops of lines 859, 990 and 1237
  kwindow,          \* the loop variable of line 1189
  LeftWindowEdge,                    \* line 1257
  RightWindowEdge,                   \* line 1258
  LeftWindowEdgeForFetch,            \* line 1259
  RightWindowEdgeForFetch,           \* line 1260
  \* ---- the names of the reads (SpecNames) ----
  npc,              \* where the script is
  nAlias,           \* BasenameForReads: the alias of the sample
  nDict,            \* ReadDict as it is at line 1055
  nNamed,           \* reads, the list ProcessReadDict returns
  nParsed,          \* per name: what ReadAlignedReadsIntoDicts reads in it
  nProbe,           \* a name made of a rank and a count, and what is read
                    \* in it
  \* ---- the recombination report of a window (SpecRecomb) ----
  rpc,              \* where the script is
  FinalAlignment,   \* SeqAlignmentHere at line 1798
  SamplesToAlnPosDict,               \* line 1799
  aliasOrder,       \* the aliases in the order in which line 1808 took them
  RecombinationResults,              \* line 1807
  RecombinantRows,  \* the rows written after the header at line 1820
  \* ---- the options and the windows made from them (SpecConfig) ----
  gpc,              \* where the script is
  gend,             \* "running", or how the script ended: "exit",
                    \* "ValueError", "NameError"
  configArgs,       \* args, the options of the command line
  RefSeqLength,                      \* line 815
  assigned,         \* the names among WindowStartPos, WindowEndPos that
                    \* have been assigned
  WindowStartPos,                    \* lines 557, 567
  WindowEndPos,                      \* lines 563, 565, 817
  ConfigWindowCoords,                \* WindowCoords of lines 375, 827, 836
  NextStart,                         \* lines 828, 832
  NextEnd,                           \* lines 829, 833
  \* ---- the end of an iteration, from the reads to the trees (SpecFinish) ----
  qpc,              \* where the script is
  finishArgs,       \* the options read at the end of an iteration
  qNumWindows,      \* NumCoords / 2
  qwindow,          \* the number of windows begun
  FileForReads,     \* what mafft left in FileForReads (lines 1613-1617)
  ConsensusAlignment,                \* lines 1657, 1727
  WindowWidthExplorationData         \* line 603

loopVars == <<pc, window, opts, ThisWindow, OverlapsLastWindow,
              AllPatientsReadNamesInThisWindow,
              AllPatientsReadNamesInLastWindow, bam, fetched,
              matesSeen, AllReads, UniqueReads, DiscardedReadPairsDict>>
histVars == <<yielded, credited, yieldedLast, inRun, sharesLast, runLength, skippedTwice,
              disagreed,
              ended>>
contamVars == <<cpc, FlagContaminants, contaminant_count_ratio,
                AllReadDictsInThisWindow, ReadDictsBefore, pair, todo,
                DuplicateDetails, ContaminantReadsFound>>
flowVars == <<fpc, flowOpts, NumWindows, fwindow, visited, alignedFile,
              flowEnded>>
mergeVars == <<mpc, merging_threshold, min_read_count, ReadDicts,
               AllReadsInThisWindow, SeqAlignmentHere, lastMerged>>
windowVars == <<CheckDuplicates, RecallContaminants, flag_contaminants_only,
                ContaminantFile, ContaminantReadsInput, extracted, wbam,
                warned>>
parVars == <<bamReads, thread, recordedAlias>>
coordVars == <<kpc, coordArgs, WindowCoords, NumCoords, BamFileRefLengths,
               CoordsString, CoordsInRefs, kbam, kwindow, LeftWindowEdge,
               RightWindowEdge, LeftWindowEdgeForFetch,
               RightWindowEdgeForFetch>>
nameVars == <<npc, nAlias, nDict, nNamed, nParsed, nProbe>>
recombVars == <<rpc, FinalAlignment, SamplesToAlnPosDict, aliasOrder,
                RecombinationResults, RecombinantRows>>
configVars == <<gpc, gend, configArgs, RefSeqLength, assigned,
                WindowStartPos, WindowEndPos, ConfigWindowCoords, NextStart,
                NextEnd>>
finishVars == <<qpc, finishArgs, qNumWindows, qwindow, FileForReads,
                ConsensusAlignment, WindowWidthExplorationData>>
\* the variables the window loop of Spec leaves alone
beyondLoop == <<contamVars, flowVars, mergeVars, windowVars, parVars,
               coordVars, nameVars, recombVars, configVars,
    finishVars>>
\* the variables SpecContam leaves alone
beyondContam == <<loopVars, histVars, flowVars, mergeVars, windowVars,
                 parVars, coordVars, nameVars, recombVars, configVars,
    finishVars>>
\* the variables SpecFlow leaves alone
beyondFlow == <<loopVars, histVars, contamVars, mergeVars, windowVars,
               parVars, coordVars, nameVars, recombVars, configVars,
    finishVars>>
\* the variables SpecMerge leaves alone
beyondMerge == <<loopVars, histVars, contamVars, flowVars, windowVars,
                parVars, coordVars, nameVars, recombVars, configVars,
    finishVars>>
\* the variables SpecWindow leaves alone
beyondWindow == <<loopVars, histVars, flowVars, parVars, coordVars,
                  nameVars, recombVars, configVars,
    finishVars>>
\* the variables SpecCoords leaves alone
beyondCoords == <<loopVars, histVars, contamVars, flowVars, mergeVars,
                  windowVars, parVars, nameVars, recombVars, configVars,
    finishVars>>
\* the variables SpecNames leaves alone
beyondNames == <<loopVars, histVars, contamVars, flowVars, mergeVars,
                 windowVars, parVars, coordVars, recombVars, configVars,
    finishVars>>
\* the variables SpecRecomb leaves alone
beyondRecomb == <<loopVars, histVars, contamVars, flowVars, mergeVars,
                  windowVars, parVars, coordVars, nameVars, configVars,
    finishVars>>
\* the variables SpecConfig leaves alone
beyondConfig == <<loopVars, histVars, contamVars, flowVars, mergeVars,
                  windowVars, parVars, coordVars, nameVars, recombVars,
                  finishVars>>
\* the variables SpecFinish leaves alone, those of the merging steps apart
beyondFinish == <<loopVars, histVars, contamVars, flowVars, windowVars,
                  parVars, coordVars, nameVars, recombVars, configVars>>
vars == <<loopVars, histVars, beyondLoop>>

(***************************************************************************)
(* Python dicts: a function whose domain is the set of keys.               *)
(***************************************************************************)
EmptyDict == <<>>

\* d[k] = 1, whatever d[k] was
SetCountToOne(d, k) ==
  [x \in DOMAIN d \cup {k} |-> IF x = k THEN 1 ELSE d[x]]

\* d[k] += 1 if k in d else d[k] = 1 (lines 1336-1339, 1382-1385)
IncrementCount(d, k) ==
  IF k \in DOMAIN d THEN [d EXCEPT ![k] = @ + 1]
  ELSE [x \in DOMAIN d \cup {k} |-> IF x = k THEN 1 ELSE d[x]]

\* d[k] = v
SetKey(d, k, v) == [x \in DOMAIN d \cup {k} |-> IF x = k THEN v ELSE d[x]]

\* del d[k]
DelKey(d, k) == [x \in DOMAIN d \ {k} |-> d[x]]

RECURSIVE SumOver(_, _)
SumOver(f, S) ==
  IF S = {} THEN 0
  ELSE LET x == CHOOSE y \in S : TRUE IN f[x] + SumOver(f, S \ {x})

\* sum(d.values())
TotalCount(d) == SumOver(d, DOMAIN d)

(***************************************************************************)
(* The window loop, lines 1185-1394.                                       *)
(***************************************************************************)
\* the options of the run that the loop reads (args);
\* inspect_disagreeing_overlaps is read only under merge_paired_reads (line
\* 1300), so it varies only there
Options == {o \in [forbid_read_repeats : BOOLEAN, merge_paired_reads : BOOLEAN,
                   inspect_disagreeing_overlaps : BOOLEAN] :
              o.inspect_disagreeing_overlaps => o.merge_paired_reads}

NoNames == [s \in Samples |-> {}]
NoCredit == [n \in Names |-> 0]
NoMates == [n \in Names |-> 0]

\* the first half of the test of lines 1209-1210 alone
OverlapTestOneSided(last, this) ==
  last[1] <= this[1] /\ this[1] <= last[2]

\* the test of lines 1209-1210 with < for <=
OverlapTestStrict(last, this) ==
  \/ (last[1] < this[1] /\ this[1] < last[2])
  \/ (this[1] < last[1] /\ last[1] < this[2])

\* lines 1209-1210, for LastWindow = last and ThisWindow = this
OverlapTest(last, this) ==
  \/ (last[1] <= this[1] /\ this[1] <= last[2])
  \/ (this[1] <= last[1] /\ last[1] <= this[2])

\* two closed intervals share a position
SharePosition(a, b) == \E p \in a[1]..a[2] : p \in b[1]..b[2]

\* SpecContam is not running
ContamIdle ==
  /\ cpc = "idle"
  /\ FlagContaminants = FALSE
  /\ contaminant_count_ratio = None
  /\ AllReadDictsInThisWindow = <<>>
  /\ ReadDictsBefore = <<>>
  /\ pair = <<1, 2>>
  /\ todo = {}
  /\ DuplicateDetails = <<>>
  /\ ContaminantReadsFound = EmptyDict

\* SpecFlow is not running
FlowIdle ==
  /\ fpc = "idle"
  /\ flowOpts = None
  /\ NumWindows = 0
  /\ fwindow = 0
  /\ visited = <<>>
  /\ alignedFile = "none"
  /\ flowEnded = "none"

\* SpecMerge is not running
MergeIdle ==
  /\ mpc = "idle"
  /\ merging_threshold = 0
  /\ min_read_count = 1
  /\ ReadDicts = <<>>
  /\ AllReadsInThisWindow = <<>>
  /\ SeqAlignmentHere = <<>>
  /\ lastMerged = <<>>

\* SpecWindow is not running
WindowIdle ==
  /\ CheckDuplicates = TRUE
  /\ RecallContaminants = FALSE
  /\ flag_contaminants_only = FALSE
  /\ ContaminantFile = None
  /\ ContaminantReadsInput = EmptyDict
  /\ extracted = <<>>
  /\ wbam = 1
  /\ warned = {}

\* SpecCoords is not running
CoordsIdle ==
  /\ kpc = "idle"
  /\ coordArgs = None
  /\ WindowCoords = <<>>
  /\ NumCoords = 0
  /\ BamFileRefLengths = <<>>
  /\ CoordsString = <<>>
  /\ CoordsInRefs = EmptyDict
  /\ kbam = 1
  /\ kwindow = 0
  /\ LeftWindowEdge = None
  /\ RightWindowEdge = None
  /\ LeftWindowEdgeForFetch = None
  /\ RightWindowEdgeForFetch = None

\* SpecNames is not running
NamesIdle ==
  /\ npc = "idle"
  /\ nAlias = <<>>
  /\ nDict = EmptyDict
  /\ nNamed = <<>>
  /\ nParsed = <<>>
  /\ nProbe = None

\* SpecRecomb is not running
RecombIdle ==
  /\ rpc = "idle"
  /\ FinalAlignment = <<>>
  /\ SamplesToAlnPosDict = EmptyDict
  /\ aliasOrder = <<>>
  /\ RecombinationResults = <<>>
  /\ RecombinantRows = <<>>

\* SpecConfig is not running
ConfigIdle ==
  /\ gpc = "idle"
  /\ gend = "running"
  /\ configArgs = <<>>
  /\ RefSeqLength = 0
  /\ assigned = {}
  /\ WindowStartPos = 0
  /\ WindowEndPos = 0
  /\ ConfigWindowCoords = <<>>
  /\ NextStart = 0
  /\ NextEnd = 0

\* SpecFinish is not running
FinishIdle ==
  /\ qpc = "idle"
  /\ finishArgs = <<>>
  /\ qNumWindows = 0
  /\ qwindow = 0
  /\ FileForReads = <<>>
  /\ ConsensusAlignment = <<>>
  /\ WindowWidthExplorationData = <<>>

\* SpecPar is not running
ParIdle ==
  /\ bamReads = <<>>
  /\ thread = <<>>
  /\ recordedAlias = <<>>

Init ==
  /\ ContamIdle
  /\ FlowIdle
  /\ MergeIdle
  /\ WindowIdle
  /\ ParIdle
  /\ CoordsIdle
  /\ NamesIdle
  /\ RecombIdle
  /\ ConfigIdle
  /\ FinishIdle
  /\ pc = "top"
  /\ window = 0
  /\ opts \in Options
  /\ ThisWindow = <<NegInf, NegInf>>
  /\ OverlapsLastWindow = FALSE
  /\ AllPatientsReadNamesInThisWindow = NoNames
  /\ AllPatientsReadNamesInLastWindow = NoNames
  /\ bam = 1
  /\ fetched = 0
  /\ matesSeen = NoMates
  /\ AllReads = EmptyDict
  /\ UniqueReads = EmptyDict
  /\ DiscardedReadPairsDict = [s \in Samples |-> <<>>]
  /\ yielded = NoNames
  /\ credited = NoCredit
  /\ yieldedLast = NoNames
  /\ inRun = NoNames
  /\ sharesLast = FALSE
  /\ runLength = 0
  /\ skippedTwice = {}
  /\ disagreed = {}
  /\ ended = "none"

\* the two ledgers put together instead of swapped
LedgerMerged ==
  [s \in Samples |-> AllPatientsReadNamesInThisWindow[s]
                       \cup AllPatientsReadNamesInLastWindow[s]]

\* line 1205: the ledger of the window that has just been processed becomes
\* the ledger of the last window
LedgerCarried == AllPatientsReadNamesInThisWindow

\* lines 1189-1210: the top of an iteration, for the next window of the list
StartWindow ==
  /\ UNCHANGED beyondLoop
  /\ pc = "top"
  /\ window < MaxWindows
  /\ \E win \in WindowChoices :
       LET LastWindow == ThisWindow
       IN /\ ThisWindow' = win
          /\ OverlapsLastWindow' = OverlapTest(LastWindow, win)
          /\ sharesLast' = SharePosition(LastWindow, win)
          /\ runLength' = IF SharePosition(LastWindow, win)
                          THEN runLength + 1 ELSE 1
          /\ inRun' = [s \in Samples |->
                        IF ~SharePosition(LastWindow, win) THEN {}
                        ELSE IF sharesLast THEN inRun[s] \cap yielded[s]
                        ELSE yielded[s]]
  /\ AllPatientsReadNamesInLastWindow' = LedgerCarried
  /\ AllPatientsReadNamesInThisWindow' = NoNames
  /\ yieldedLast' = yielded
  /\ yielded' = NoNames
  /\ pc' = "start"
  /\ UNCHANGED <<window, opts, bam, fetched, matesSeen, AllReads, UniqueReads,
                 DiscardedReadPairsDict, credited, skippedTwice, disagreed,
                 ended>>

\* lines 1212-1273: the lists of this window's reads are made, the window's
\* contaminant file is read, and the loop over the bam files begins with the
\* first one and empty dicts
PrepareWindow ==
  /\ UNCHANGED beyondLoop
  /\ pc = "start"
  /\ pc' = "fetch"
  /\ bam' = 1
  /\ fetched' = 0
  /\ matesSeen' = NoMates
  /\ AllReads' = EmptyDict
  /\ UniqueReads' = EmptyDict
  /\ credited' = NoCredit
  /\ disagreed' = {}
  /\ skippedTwice' = {}
  /\ ended' = "none"
  /\ UNCHANGED <<window, opts, ThisWindow, OverlapsLastWindow,
                 AllPatientsReadNamesInThisWindow,
                 AllPatientsReadNamesInLastWindow, DiscardedReadPairsDict,
                 yielded, yieldedLast, inRun, sharesLast, runLength>>

\* BamFile.fetch has another read, of this name, to return (line 1275); with
\* merge_paired_reads the reads of one name are the two mates of a pair
CanFetch(name) ==
  /\ pc = "fetch"
  /\ fetched < MaxFetch
  /\ opts.merge_paired_reads => matesSeen[name] \in {0, 1}

\* lines 1278-1281: with discard_improper_pairs, a read that is paired and
\* not properly paired is skipped (a run without the option is a run in which
\* no read is skipped)
SkipImproperPair ==
  /\ UNCHANGED beyondLoop
  /\ \E name \in Names :
       /\ CanFetch(name)
       /\ fetched' = fetched + 1
       /\ matesSeen' = IF opts.merge_paired_reads
                       THEN [matesSeen EXCEPT ![name] = @ + 1]
                       ELSE matesSeen
  /\ UNCHANGED <<pc, window, opts, ThisWindow, OverlapsLastWindow,
                 AllPatientsReadNamesInThisWindow,
                 AllPatientsReadNamesInLastWindow, bam, AllReads, UniqueReads,
                 DiscardedReadPairsDict, histVars>>

\* no test of the name against this window's ledger
NeverSeen(name) == FALSE

\* line 1329: a read of this name has been seen in this window
SeenThisWindow(name) == name \in AllPatientsReadNamesInThisWindow[bam]

\* lines 1332-1333 and 1378-1379: the name was seen in the last window, which
\* this one overlaps
SeenLastWindow(name) ==
  OverlapsLastWindow /\ name \in AllPatientsReadNamesInLastWindow[bam]

\* the name recorded only when its read is counted
NamesRecordedIfUsed(name) ==
  IF SeenLastWindow(name) THEN AllPatientsReadNamesInThisWindow
  ELSE [AllPatientsReadNamesInThisWindow EXCEPT ![bam] = @ \cup {name}]

\* lines 1331 and 1377: the name is added to this window's ledger, whether or
\* not the read is then used
NamesRecorded(name) ==
  [AllPatientsReadNamesInThisWindow EXCEPT ![bam] = @ \cup {name}]

\* lines 1314-1339: a read is processed at once when pairs are not merged;
\* seq is what ProcessRead returns for it
FetchUnmerged ==
  /\ UNCHANGED beyondLoop
  /\ ~opts.merge_paired_reads
  /\ \E name \in Names, seq \in ReadSeqs \cup {None} :
       /\ CanFetch(name)
       /\ fetched' = fetched + 1
       /\ UNCHANGED matesSeen
       /\ IF seq = None
          THEN UNCHANGED <<AllPatientsReadNamesInThisWindow, UniqueReads,
                           yielded, credited, skippedTwice>>
          ELSE /\ yielded' = [yielded EXCEPT ![bam] = @ \cup {name}]
               /\ IF opts.forbid_read_repeats /\ SeenThisWindow(name)
                  THEN /\ skippedTwice' = skippedTwice \cup {name}
                       /\ UNCHANGED <<AllPatientsReadNamesInThisWindow,
                                      UniqueReads, credited>>
                  ELSE /\ UNCHANGED skippedTwice
                       /\ AllPatientsReadNamesInThisWindow' =
                            IF opts.forbid_read_repeats
                            THEN NamesRecorded(name)
                            ELSE AllPatientsReadNamesInThisWindow
                       /\ IF opts.forbid_read_repeats /\ SeenLastWindow(name)
                          THEN UNCHANGED <<UniqueReads, credited>>
                          ELSE /\ UniqueReads' = IncrementCount(UniqueReads, seq)
                               /\ credited' =
                                    [credited EXCEPT ![name] = @ + 1]
  /\ UNCHANGED <<pc, window, opts, ThisWindow, OverlapsLastWindow,
                 AllPatientsReadNamesInLastWindow, bam, AllReads,
                 DiscardedReadPairsDict, inRun, yieldedLast, sharesLast, runLength,
                 disagreed, ended>>

\* what MergeReadPairOverWindow returns (lines 1291-1298): None, False for a
\* disagreeing overlap, or the merged PseudoRead
MergeOutcomes == {"None", "False", "Merged"}

\* every pair that is not merged kept, whatever the reason
DiscardedKeepingAll(name, outcome) ==
  IF outcome # "Merged" /\ opts.inspect_disagreeing_overlaps
  THEN [DiscardedReadPairsDict EXCEPT
          ![bam] = @ \o << <<name, 1>>, <<name, 2>> >>]
  ELSE DiscardedReadPairsDict

\* lines 1295-1302: DiscardedReadPairsDict after a pair failed to merge
\* (Read1 and Read2 are the two mates, <<name, 1>> and <<name, 2>>)
DiscardedAfter(name, outcome) ==
  IF outcome = "False" /\ opts.inspect_disagreeing_overlaps
  THEN [DiscardedReadPairsDict EXCEPT
          ![bam] = @ \o << <<name, 1>>, <<name, 2>> >>]
  ELSE DiscardedReadPairsDict

\* lines 1283-1309: with merge_paired_reads a read is held until its mate is
\* seen, and then the two are merged
FetchMate ==
  /\ UNCHANGED beyondLoop
  /\ opts.merge_paired_reads
  /\ \E name \in Names, outcome \in MergeOutcomes :
       /\ CanFetch(name)
       /\ fetched' = fetched + 1
       /\ matesSeen' = [matesSeen EXCEPT ![name] = @ + 1]
       /\ IF name \in DOMAIN AllReads
          THEN /\ (outcome = "False" /\ opts.inspect_disagreeing_overlaps)
                    => Len(DiscardedReadPairsDict[bam]) < 2 * MaxDiscardedPairs
               /\ AllReads' = IF outcome = "Merged"
                              THEN SetKey(AllReads, name, "PseudoRead")
                              ELSE DelKey(AllReads, name)
               /\ DiscardedReadPairsDict' = DiscardedAfter(name, outcome)
               /\ disagreed' = IF outcome = "False"
                               THEN disagreed \cup {name}
                               ELSE disagreed
          ELSE /\ outcome = "Merged"
               /\ AllReads' = SetKey(AllReads, name, "AlignedSegment")
               /\ UNCHANGED <<DiscardedReadPairsDict, disagreed>>
  /\ UNCHANGED <<pc, window, opts, ThisWindow, OverlapsLastWindow,
                 AllPatientsReadNamesInThisWindow,
                 AllPatientsReadNamesInLastWindow, bam, UniqueReads,
                 yielded, credited, yieldedLast, inRun, sharesLast, runLength,
                 skippedTwice, ended>>

\* lines 1372-1385, for every read of AllReads: res[n] is what ProcessRead
\* returns for the read or merged pair named n
RECURSIVE CountAll(_, _, _)
CountAll(d, names, res) ==
  IF names = {} THEN d
  ELSE LET n == CHOOSE x \in names : TRUE
       IN CountAll(IF res[n] = None
                      \/ (opts.forbid_read_repeats /\ SeenLastWindow(n))
                   THEN d ELSE IncrementCount(d, res[n]),
                   names \ {n}, res)

\* lines 1355-1394: with merge_paired_reads the reads and merged pairs held
\* in AllReads are processed after the fetch loop
ProcessAllReads ==
  /\ UNCHANGED beyondLoop
  /\ pc = "fetch"
  /\ opts.merge_paired_reads
  /\ \E res \in [DOMAIN AllReads -> ReadSeqs \cup {None}] :
       LET got == {n \in DOMAIN AllReads : res[n] # None}
           used == {n \in got :
                      ~(opts.forbid_read_repeats /\ SeenLastWindow(n))}
       IN /\ UniqueReads' = CountAll(UniqueReads, DOMAIN AllReads, res)
          /\ AllPatientsReadNamesInThisWindow' =
               IF opts.forbid_read_repeats
               THEN [AllPatientsReadNamesInThisWindow EXCEPT
                       ![bam] = @ \cup got]
               ELSE AllPatientsReadNamesInThisWindow
          /\ yielded' = [yielded EXCEPT ![bam] = @ \cup got]
          /\ credited' = [n \in Names |-> IF n \in used
                                           THEN credited[n] + 1
                                           ELSE credited[n]]
  /\ pc' = "extracted"
  /\ UNCHANGED <<window, opts, ThisWindow, OverlapsLastWindow,
                 AllPatientsReadNamesInLastWindow, bam, fetched, matesSeen, AllReads,
                 DiscardedReadPairsDict, yieldedLast, inRun, sharesLast, runLength,
                 skippedTwice, disagreed, ended>>

\* line 1355, merge_paired_reads unset: the fetch loop has ended and nothing
\* is left to process
EndOfFetchLoop ==
  /\ UNCHANGED beyondLoop
  /\ pc = "fetch"
  /\ ~opts.merge_paired_reads
  /\ pc' = "extracted"
  /\ UNCHANGED <<window, opts, ThisWindow, OverlapsLastWindow,
                 AllPatientsReadNamesInThisWindow,
                 AllPatientsReadNamesInLastWindow, bam, fetched, matesSeen, AllReads,
                 UniqueReads, DiscardedReadPairsDict, histVars>>

\* lines 1237 and 1269-1273: on to the next bam file, with fresh dicts
NextBam ==
  /\ UNCHANGED beyondLoop
  /\ pc = "extracted"
  /\ bam < NumSamples
  /\ bam' = bam + 1
  /\ matesSeen' = NoMates
  /\ AllReads' = EmptyDict
  /\ UniqueReads' = EmptyDict
  /\ credited' = NoCredit
  /\ disagreed' = {}
  /\ skippedTwice' = {}
  /\ pc' = "fetch"
  /\ UNCHANGED <<window, opts, ThisWindow, OverlapsLastWindow,
                 AllPatientsReadNamesInThisWindow,
                 AllPatientsReadNamesInLastWindow, fetched,
                 DiscardedReadPairsDict, yielded, yieldedLast, inRun,
                 sharesLast, runLength, ended>>

\* lines 1436-1978: the rest of the iteration, which runs to its end or is
\* left early by a continue; none of it writes the ledgers (SpecFlow models
\* it). What the loop over the bam files leaves in its own variables is
\* dead here: lines 1269-1273 assign them again before they are read
RestOfWindow ==
  /\ UNCHANGED beyondLoop
  /\ pc = "extracted"
  /\ bam = NumSamples
  /\ ended' \in {"skipped", "completed"}
  /\ window' = window + 1
  /\ pc' = "top"
  /\ bam' = 1
  /\ fetched' = 0
  /\ matesSeen' = NoMates
  /\ AllReads' = EmptyDict
  /\ UniqueReads' = EmptyDict
  /\ credited' = NoCredit
  /\ disagreed' = {}
  /\ skippedTwice' = {}
  /\ UNCHANGED <<opts, ThisWindow, OverlapsLastWindow,
                 AllPatientsReadNamesInThisWindow,
                 AllPatientsReadNamesInLastWindow, DiscardedReadPairsDict,
                 yielded, yieldedLast, inRun, sharesLast, runLength>>

\* line 1189: the list of windows is exhausted
EndOfWindows ==
  /\ UNCHANGED beyondLoop
  /\ pc = "top"
  /\ window >= 1
  /\ pc' = "done"
  /\ UNCHANGED <<window, opts, ThisWindow, OverlapsLastWindow,
                 AllPatientsReadNamesInThisWindow,
                 AllPatientsReadNamesInLastWindow, bam, fetched, matesSeen, AllReads,
                 UniqueReads, DiscardedReadPairsDict, histVars>>

Next ==
  \/ StartWindow
  \/ PrepareWindow
  \/ SkipImproperPair
  \/ FetchUnmerged
  \/ FetchMate
  \/ ProcessAllReads
  \/ EndOfFetchLoop
  \/ NextBam
  \/ RestOfWindow
  \/ EndOfWindows

Spec == Init /\ [][Next]_vars

(***************************************************************************)
(* Properties of the window loop, checked under Spec.                      *)
(***************************************************************************)
\* the reads of sample bam are being fetched and counted, or have been
Extracting == pc \in {"fetch", "extracted"}

\* C1: with forbid_read_repeats, a name that yielded a sequence for a sample
\* in the last window is not counted for it in this window when the two
\* windows share a position, and is counted in this window, if it yields a
\* sequence here, when they share none.
C1_RepeatsAcrossOverlap ==
  (opts.forbid_read_repeats /\ Extracting) =>
    \A n \in yieldedLast[bam] :
      /\ sharesLast => credited[n] = 0
      /\ (~sharesLast /\ n \in yielded[bam]) => credited[n] >= 1

\* a name used in the second window comes again in the third, which overlaps
\* the second, and is not counted there
C1_Witness ==
  /\ opts.forbid_read_repeats
  /\ pc = "extracted"
  /\ window = 2
  /\ sharesLast
  /\ \E n \in Names : /\ n \in yieldedLast[bam]
                       /\ n \in yielded[bam]
                       /\ credited[n] = 0

\* C27: the flag computed at the top of an iteration is true exactly when
\* the closed intervals of user coordinates of this window and of the window
\* before hold a position in common, it is the same with the two windows
\* exchanged, and it is false for the first window of the run.
C27_OverlapFlagIsIntervalOverlap ==
  [][StartWindow =>
       LET last == ThisWindow
           this == ThisWindow'
       IN  /\ window >= 1 =>
                (OverlapsLastWindow' <=>
                   \E p \in 1..MaxCoord : /\ last[1] <= p /\ p <= last[2]
                                          /\ this[1] <= p /\ p <= this[2])
           /\ OverlapsLastWindow' = OverlapTest(this, last)
           /\ window = 0 => ~OverlapsLastWindow'
           \* the test itself, for this window and any window before it,
           \* wider ones included
           /\ \A before \in {w \in (1..MaxCoord) \X (1..MaxCoord) :
                                w[1] < w[2]} :
                /\ OverlapTest(before, this) <=>
                     \E p \in 1..MaxCoord :
                       /\ before[1] <= p /\ p <= before[2]
                       /\ this[1] <= p /\ p <= this[2]
                /\ OverlapTest(before, this) = OverlapTest(this, before)
    ]_vars

\* the second window begins, at position 1, and overlaps the first: the flag
\* is set
C27_Witness ==
  /\ pc = "start"
  /\ window = 1
  /\ ThisWindow = <<1, 2>>
  /\ OverlapsLastWindow

\* C3: every count of a sample's dict of unique reads is >= 1 and the counts
\* sum to the number of reads (or merged pairs) that yielded a sequence and
\* were not skipped as repeats: each such read adds exactly 1 in all.
C3_CountsSumToAcceptedReads ==
  Extracting =>
    /\ \A k \in DOMAIN UniqueReads : UniqueReads[k] >= 1
    /\ TotalCount(UniqueReads) = SumOver(credited, Names)

\* three reads were counted, under two sequences
C3_Witness ==
  /\ pc = "extracted"
  /\ Cardinality(DOMAIN UniqueReads) = 2
  /\ TotalCount(UniqueReads) = 3

\* a pair of mates has just been reported to disagree on its overlap
DisagreementReported == pc = "fetch" /\ disagreed' # disagreed

\* C7: with merge_paired_reads, a pair whose mates disagree on their overlap
\* adds nothing to the sample's dict of unique reads nor to its ledger of
\* read names; with inspect_disagreeing_overlaps its two mates are appended
\* to that sample's list of discarded pairs, and no other step changes a
\* list of discarded pairs.
C7_DisagreeingPairDiscarded ==
  /\ [](Extracting =>
          \A n \in disagreed :
            /\ credited[n] = 0
            /\ n \notin yielded[bam]
            /\ n \notin AllPatientsReadNamesInThisWindow[bam])
  /\ [][IF DisagreementReported
        THEN LET n == CHOOSE x \in disagreed' : x \notin disagreed
             IN DiscardedReadPairsDict' =
                  IF opts.inspect_disagreeing_overlaps
                  THEN [DiscardedReadPairsDict EXCEPT
                          ![bam] = Append(Append(@, <<n, 1>>), <<n, 2>>)]
                  ELSE DiscardedReadPairsDict
        ELSE DiscardedReadPairsDict' = DiscardedReadPairsDict]_vars

\* the second sample's list holds a discarded pair, and another read of that
\* sample was counted
C7_Witness ==
  /\ opts.inspect_disagreeing_overlaps
  /\ pc = "extracted"
  /\ bam = 2
  /\ disagreed # {}
  /\ Len(DiscardedReadPairsDict[2]) = 2
  /\ DiscardedReadPairsDict[1] = <<>>
  /\ UniqueReads # EmptyDict

\* C8: at the start of an iteration (after lines 1205-1210) the ledger of
\* the last window holds exactly the names recorded in the iteration just
\* before it, which with forbid_read_repeats are the names that yielded a
\* sequence there, and this window's ledger is empty for every sample.
C8_LedgersSwapped ==
  pc = "start" =>
    /\ AllPatientsReadNamesInThisWindow = NoNames
    /\ AllPatientsReadNamesInLastWindow =
         (IF opts.forbid_read_repeats THEN yieldedLast ELSE NoNames)

\* the third iteration starts after one that was left early; a name of the
\* first window did not come again in the second
C8_Witness ==
  /\ pc = "start"
  /\ window = 2
  /\ ended = "skipped"
  /\ \E s \in Samples :
       /\ AllPatientsReadNamesInLastWindow[s] # {}
       /\ AllPatientsReadNamesInLastWindow[3 - s] = {}

\* C9: with forbid_read_repeats, a name that yielded a sequence in every
\* earlier window of a run of overlapping windows is not counted in this
\* window; a name that yields a sequence is recorded in the ledger even when
\* it is not counted; and it is counted in a window that does not overlap
\* the one before it.
C9_CountedOncePerRun ==
  (opts.forbid_read_repeats /\ Extracting) =>
    \A n \in Names :
      /\ n \in inRun[bam] => credited[n] = 0
      /\ n \in yielded[bam] => n \in AllPatientsReadNamesInThisWindow[bam]
      /\ (n \in yielded[bam] /\ ~sharesLast) => credited[n] >= 1

\* the third window of a run: the name came in all three windows, was not
\* counted in the second and is not counted in the third
C9_Witness ==
  /\ opts.forbid_read_repeats
  /\ pc = "extracted"
  /\ runLength = 3
  /\ \E n \in Names : /\ n \in inRun[bam]
                       /\ n \in yielded[bam]
                       /\ credited[n] = 0

\* C10: with forbid_read_repeats and without merge_paired_reads, the reads of
\* one name add at most 1 to a sample's counts in one window.
C10_OneCountPerName ==
  (opts.forbid_read_repeats /\ ~opts.merge_paired_reads /\ Extracting) =>
    \A n \in Names : credited[n] <= 1

\* a second read of a name yielded a sequence and was skipped
C10_Witness ==
  /\ opts.forbid_read_repeats
  /\ ~opts.merge_paired_reads
  /\ pc = "extracted"
  /\ \E n \in skippedTwice : credited[n] = 1

(***************************************************************************)
(* SpecContam: the check for duplicates between samples and the diagnosis  *)
(* of contaminants, lines 1444-1499, after the check of the ratio at lines *)
(* 460-466. The dicts of the samples are those handed over at line 1417.   *)
(***************************************************************************)
\* the largest count of a sequence in a sample's dict
MaxCount == 2

\* the dicts of unique reads a sample can hand over: counts >= 1
CountDicts ==
  UNION {[S -> 1..MaxCount] : S \in SUBSET ReadSeqs}

\* the values of --contaminant-count-ratio tried, as <<numerator, denominator>>
RatioChoices == {<<1, 2>>, <<1, 1>>, <<3, 2>>, <<2, 1>>}

\* the window loop is not running
LoopIdle ==
  /\ pc = "idle"
  /\ window = 0
  /\ opts = [forbid_read_repeats |-> FALSE, merge_paired_reads |-> FALSE,
             inspect_disagreeing_overlaps |-> FALSE]
  /\ ThisWindow = <<NegInf, NegInf>>
  /\ OverlapsLastWindow = FALSE
  /\ AllPatientsReadNamesInThisWindow = NoNames
  /\ AllPatientsReadNamesInLastWindow = NoNames
  /\ bam = 1
  /\ fetched = 0
  /\ matesSeen = NoMates
  /\ AllReads = EmptyDict
  /\ UniqueReads = EmptyDict
  /\ DiscardedReadPairsDict = [s \in Samples |-> <<>>]
  /\ yielded = NoNames
  /\ credited = NoCredit
  /\ yieldedLast = NoNames
  /\ inRun = NoNames
  /\ sharesLast = FALSE
  /\ runLength = 0
  /\ skippedTwice = {}
  /\ disagreed = {}
  /\ ended = "none"

InitContam ==
  /\ LoopIdle
  /\ FlowIdle
  /\ MergeIdle
  /\ WindowIdle
  /\ ParIdle
  /\ CoordsIdle
  /\ NamesIdle
  /\ RecombIdle
  /\ ConfigIdle
  /\ FinishIdle
  /\ cpc = "validate"
  /\ FlagContaminants \in BOOLEAN
  /\ contaminant_count_ratio \in
       (IF FlagContaminants THEN RatioChoices ELSE {None})
  /\ AllReadDictsInThisWindow \in [Samples -> CountDicts]
  /\ ReadDictsBefore = AllReadDictsInThisWindow
  /\ pair = <<1, 2>>
  /\ todo = {}
  /\ DuplicateDetails = <<>>
  /\ ContaminantReadsFound = EmptyDict

\* line 461: args.contaminant_count_ratio < 1
RatioBelowOne(r) == r[1] < r[2]

\* lines 460-466, then the start of the loops of lines 1451-1456
ValidateRatio ==
  /\ cpc = "validate"
  /\ IF FlagContaminants /\ RatioBelowOne(contaminant_count_ratio)
     THEN /\ cpc' = "quit"
          /\ UNCHANGED todo
     ELSE /\ cpc' = "compare"
          /\ todo' = DOMAIN AllReadDictsInThisWindow[1]
  /\ UNCHANGED <<FlagContaminants, contaminant_count_ratio,
                 AllReadDictsInThisWindow, ReadDictsBefore, pair,
                 DuplicateDetails, ContaminantReadsFound>>
  /\ UNCHANGED beyondContam

\* no sample is diagnosed (line 1466)
NoAlias == 0

\* line 1467: CountRatio >= args.contaminant_count_ratio, for
\* CountRatio = float(Bam1Count) / Bam2Count
AtLeastRatio(Bam1Count, Bam2Count, r) ==
  Bam1Count * r[2] >= r[1] * Bam2Count

\* line 1469: CountRatio <= 1. / args.contaminant_count_ratio
AtMostInverseRatio(Bam1Count, Bam2Count, r) ==
  Bam1Count * r[1] <= r[2] * Bam2Count

\* lines 1465-1470
ContaminantAlias(BamFile1Alias, BamFile2Alias, Bam1Count, Bam2Count, r) ==
  IF AtLeastRatio(Bam1Count, Bam2Count, r) THEN BamFile2Alias
  ELSE IF AtMostInverseRatio(Bam1Count, Bam2Count, r) THEN BamFile1Alias
  ELSE NoAlias

\* the read appended to the list of the alias whether or not it is there
FoundAfterUnchecked(found, alias, read) ==
  IF alias = NoAlias THEN found
  ELSE IF alias \in DOMAIN found
       THEN [found EXCEPT ![alias] = Append(@, read)]
       ELSE SetKey(found, alias, <<read>>)

\* lines 1471-1478
FoundAfter(found, alias, read) ==
  IF alias = NoAlias THEN found
  ELSE IF alias \in DOMAIN found
       THEN IF \E k \in 1..Len(found[alias]) : found[alias][k] = read
            THEN found
            ELSE [found EXCEPT ![alias] = Append(@, read)]
       ELSE SetKey(found, alias, <<read>>)

\* lines 1456-1478: one read of ReadDict1
CompareRead ==
  /\ cpc = "compare"
  /\ \E read \in todo :
       LET ReadDict1 == AllReadDictsInThisWindow[pair[1]]
           ReadDict2 == AllReadDictsInThisWindow[pair[2]]
       IN /\ todo' = todo \ {read}
          /\ IF read \in DOMAIN ReadDict2
             THEN /\ DuplicateDetails' =
                       Append(DuplicateDetails,
                              <<pair[1], pair[2], ReadDict1[read],
                                ReadDict2[read]>>)
                  /\ ContaminantReadsFound' =
                       IF FlagContaminants
                       THEN FoundAfter(ContaminantReadsFound,
                              ContaminantAlias(pair[1], pair[2],
                                ReadDict1[read], ReadDict2[read],
                                contaminant_count_ratio),
                              read)
                       ELSE ContaminantReadsFound
             ELSE UNCHANGED <<DuplicateDetails, ContaminantReadsFound>>
  /\ UNCHANGED <<cpc, FlagContaminants, contaminant_count_ratio,
                 AllReadDictsInThisWindow, ReadDictsBefore, pair>>
  /\ UNCHANGED beyondContam

\* lines 1451-1455: the next pair of samples, i < j
NextPair ==
  /\ cpc = "compare"
  /\ todo = {}
  /\ LET last == Len(AllReadDictsInThisWindow)
         next == IF pair[2] < last THEN <<pair[1], pair[2] + 1>>
                 ELSE <<pair[1] + 1, pair[1] + 2>>
     IN IF next[2] <= last
        THEN /\ pair' = next
             /\ todo' = DOMAIN AllReadDictsInThisWindow[next[1]]
             /\ UNCHANGED cpc
        ELSE /\ cpc' = "remove"
             /\ UNCHANGED <<pair, todo>>
  /\ UNCHANGED <<FlagContaminants, contaminant_count_ratio,
                 AllReadDictsInThisWindow, ReadDictsBefore,
                 DuplicateDetails, ContaminantReadsFound>>
  /\ UNCHANGED beyondContam

\* the reads of a list
Range(list) == {list[k] : k \in 1..Len(list)}

\* del d[read] for the first n reads of a list, one after the other; a read
\* that is not a key of d raises KeyError
RECURSIVE DeleteAll(_, _, _)
DeleteAll(d, reads, n) ==
  IF n = 0 THEN [dict |-> d, KeyError |-> FALSE]
  ELSE LET sofar == DeleteAll(d, reads, n - 1)
       IN IF reads[n] \in DOMAIN sofar.dict
          THEN [sofar EXCEPT !.dict = DelKey(@, reads[n])]
          ELSE [sofar EXCEPT !.KeyError = TRUE]

\* lines 1498-1499 for the dict of sample s
WithoutContaminants(s) ==
  IF s \in DOMAIN ContaminantReadsFound
  THEN DeleteAll(AllReadDictsInThisWindow[s], ContaminantReadsFound[s],
                 Len(ContaminantReadsFound[s]))
  ELSE [dict |-> AllReadDictsInThisWindow[s], KeyError |-> FALSE]

\* lines 1487-1499: the reads diagnosed for a sample are deleted from its
\* dict; an uncaught KeyError ends the run
RemoveContaminants ==
  /\ cpc = "remove"
  /\ cpc' = IF \E s \in DOMAIN AllReadDictsInThisWindow :
                  WithoutContaminants(s).KeyError
            THEN "KeyError" ELSE "done"
  /\ AllReadDictsInThisWindow' =
       [s \in DOMAIN AllReadDictsInThisWindow |->
          WithoutContaminants(s).dict]
  /\ UNCHANGED <<FlagContaminants, contaminant_count_ratio, ReadDictsBefore,
                 pair, todo, DuplicateDetails, ContaminantReadsFound>>
  /\ UNCHANGED beyondContam

NextContam ==
  \/ ValidateRatio
  \/ CompareRead
  \/ NextPair
  \/ RemoveContaminants

SpecContam == InitContam /\ [][NextContam]_vars

\* sample s held the read and it has been removed as a contaminant
Flagged(s, read) ==
  /\ read \in DOMAIN ReadDictsBefore[s]
  /\ read \notin DOMAIN AllReadDictsInThisWindow[s]

\* some other sample holds the read with a count at least r times that of s
OutnumberedByRatio(s, read) ==
  \E o \in Samples \ {s} :
    /\ read \in DOMAIN ReadDictsBefore[o]
    /\ AtLeastRatio(ReadDictsBefore[o][read], ReadDictsBefore[s][read],
                    contaminant_count_ratio)

\* C2: when contaminants are flagged with a ratio r >= 1, a sample's copy of
\* a shared sequence is removed exactly when another sample's count is at
\* least r times its own, and then that other count is the higher one,
\* whichever of the two samples is listed first.
C2_FlaggedIffOutnumbered ==
  (cpc = "done" /\ FlagContaminants) =>
    \A s \in Samples : \A read \in DOMAIN ReadDictsBefore[s] :
      /\ Flagged(s, read) <=> OutnumberedByRatio(s, read)
      /\ Flagged(s, read) =>
           \E o \in Samples \ {s} :
             /\ read \in DOMAIN ReadDictsBefore[o]
             /\ ReadDictsBefore[o][read] > ReadDictsBefore[s][read]

(***************************************************************************)
(* SpecFlow: the rest of an iteration of the window loop, lines 1509-1935: *)
(* the windows that are skipped, the calls of the external tools and what  *)
(* the script does with each outcome of a call.                            *)
(***************************************************************************)
\* what a call of an external tool can do: exit with status 0 having written
\* what it should, fail (an exception or a non-zero status), or exit with
\* status 0 without having written anything usable
ToolOutcomes == {"ok", "fail", "no_artifact"}

\* the options read by the rest of an iteration; PairwiseAlign is read only
\* under IncludeOtherRefs (line 1573) and num_bootstraps only without
\* no_trees (line 1863)
FlowOptions ==
  {o \in [IncludeOtherRefs : BOOLEAN, PairwiseAlign : BOOLEAN,
          no_trees : BOOLEAN, bootstraps : BOOLEAN] :
     /\ o.PairwiseAlign => o.IncludeOtherRefs
     /\ o.bootstraps => ~o.no_trees}

InitFlow ==
  /\ LoopIdle
  /\ ContamIdle
  /\ MergeIdle
  /\ WindowIdle
  /\ ParIdle
  /\ CoordsIdle
  /\ NamesIdle
  /\ RecombIdle
  /\ ConfigIdle
  /\ FinishIdle
  /\ fpc = "top"
  /\ flowOpts \in FlowOptions
  /\ NumWindows \in 1..MaxWindows
  /\ fwindow = 0
  /\ visited = <<>>
  /\ alignedFile = "none"
  /\ flowEnded = "none"

\* 'continue', or the end of the loop body: on to the next window
Continue(how) ==
  /\ fpc' = "top"
  /\ fwindow' = fwindow + 1
  /\ flowEnded' = how

\* an uncaught exception, or exit(1): the run stops here
Abort ==
  /\ fpc' = "aborted"
  /\ flowEnded' = "aborted"
  /\ UNCHANGED fwindow

\* on to the next step of this iteration
GoOn(where) ==
  /\ fpc' = where
  /\ UNCHANGED <<fwindow, flowEnded>>

\* lines 1189-1507: an iteration begins and the reads of the window are
\* gathered
FlowStartWindow ==
  /\ fpc = "top"
  /\ fwindow < NumWindows
  /\ visited' = Append(visited, fwindow + 1)
  /\ alignedFile' = "none"
  /\ fpc' = "gathered"
  /\ flowEnded' = "none"
  /\ UNCHANGED <<flowOpts, NumWindows, fwindow>>
  /\ UNCHANGED beyondFlow

\* lines 1511-1559: a window with no read, or with one read and no external
\* references, is skipped; len is 2 for any longer list
SkipSmallWindow ==
  /\ fpc = "gathered"
  /\ \E len \in 0..2 :
       IF len = 0 \/ (len = 1 /\ ~flowOpts.IncludeOtherRefs)
       THEN Continue("skipped")
       ELSE GoOn("refs")
  /\ UNCHANGED <<flowOpts, NumWindows, visited, alignedFile>>
  /\ UNCHANGED beyondFlow

\* lines 1568-1596: the part of the external references in this window
SliceOtherRefs ==
  /\ fpc = "refs"
  /\ IF ~flowOpts.IncludeOtherRefs THEN GoOn("align")
     ELSE IF flowOpts.PairwiseAlign
          THEN \E AllPureGap \in BOOLEAN :
                 IF AllPureGap THEN Continue("skipped") ELSE GoOn("align")
          ELSE \E outcome \in ToolOutcomes :
                 IF outcome = "fail" THEN Continue("skipped")
                 ELSE GoOn("align")
  /\ UNCHANGED <<flowOpts, NumWindows, visited, alignedFile>>
  /\ UNCHANGED beyondFlow

\* lines 1613-1617: FileForReads is opened for writing by the script, so it
\* exists whatever mafft does; what it holds is up to mafft
FileAfterMafft(outcome) ==
  IF outcome = "ok" THEN "usable" ELSE "unusable"

\* lines 1605-1627: mafft is called; a failed call skips the window, and so
\* would a missing FileForReads
CallMafft ==
  /\ fpc = "align"
  /\ \E outcome \in ToolOutcomes :
       IF outcome = "fail"
       THEN /\ Continue("skipped")
            /\ UNCHANGED alignedFile
       ELSE /\ alignedFile' = FileAfterMafft(outcome)
            /\ IF alignedFile' = "missing" THEN Continue("skipped")
               ELSE GoOn("read")
  /\ UNCHANGED <<flowOpts, NumWindows, visited>>
  /\ UNCHANGED beyondFlow

\* lines 1637-1643: AlignIO.read raises on a file that is no alignment, and
\* the handler prints a message and raises again
ReadAlignedReads ==
  /\ fpc = "read"
  /\ IF alignedFile = "usable" THEN GoOn("mltree") ELSE Abort
  /\ UNCHANGED <<flowOpts, NumWindows, visited, alignedFile>>
  /\ UNCHANGED beyondFlow

\* lines 1832-1853: the ML tree, unless no_trees
MakeMLTree ==
  /\ fpc = "mltree"
  /\ IF flowOpts.no_trees THEN Continue("completed")
     ELSE \E outcome \in ToolOutcomes :
            IF outcome = "ok" THEN GoOn("bootstrap")
            ELSE Continue("skipped")
  /\ UNCHANGED <<flowOpts, NumWindows, visited, alignedFile>>
  /\ UNCHANGED beyondFlow

\* lines 1862-1879 and 1932-1935: the bootstrapped alignments, if asked for
BootstrapAlignments ==
  /\ fpc = "bootstrap"
  /\ IF ~flowOpts.bootstraps THEN Continue("completed")
     ELSE \E outcome \in ToolOutcomes :
            IF outcome = "ok" THEN GoOn("bstrees")
            ELSE Continue("skipped")
  /\ UNCHANGED <<flowOpts, NumWindows, visited, alignedFile>>
  /\ UNCHANGED beyondFlow

\* lines 1881-1899: a tree for each bootstrap; a failed call breaks out of
\* the loop and the test for the missing trees skips the window
BootstrapTrees ==
  /\ fpc = "bstrees"
  /\ \E outcome \in ToolOutcomes :
       IF outcome = "ok" THEN GoOn("collect")
       ELSE Continue("skipped")
  /\ UNCHANGED <<flowOpts, NumWindows, visited, alignedFile>>
  /\ UNCHANGED beyondFlow

\* lines 1901-1924: the bootstrapped trees are collected onto the ML tree
CollectBootstraps ==
  /\ fpc = "collect"
  /\ \E outcome \in ToolOutcomes :
       IF outcome = "ok" THEN Continue("completed")
       ELSE Continue("skipped")
  /\ UNCHANGED <<flowOpts, NumWindows, visited, alignedFile>>
  /\ UNCHANGED beyondFlow

\* line 1189: no window is left
FlowEndOfWindows ==
  /\ fpc = "top"
  /\ fwindow = NumWindows
  /\ fpc' = "done"
  /\ UNCHANGED <<flowOpts, NumWindows, fwindow, visited, alignedFile,
                 flowEnded>>
  /\ UNCHANGED beyondFlow

NextFlow ==
  \/ FlowStartWindow
  \/ SkipSmallWindow
  \/ SliceOtherRefs
  \/ CallMafft
  \/ ReadAlignedReads
  \/ MakeMLTree
  \/ BootstrapAlignments
  \/ BootstrapTrees
  \/ CollectBootstraps
  \/ FlowEndOfWindows

SpecFlow == InitFlow /\ [][NextFlow]_vars

\* C4: whatever the external tools do inside the window loop, the run does
\* not abort, and when it ends every window has been visited, in the order
\* listed.
C4_ToolFailureNeverAborts ==
  /\ fpc # "aborted"
  /\ fpc = "done" => visited = [k \in 1..NumWindows |-> k]

(***************************************************************************)
(* SpecMerge: the merging of similar reads before the alignment, in        *)
(* ProcessReadDict (lines 1032-1062), and after it, in ReMergeAlignedReads *)
(* (lines 1068-1134), with the names that carry the counts from the one to *)
(* the other. A name is the sequence of its characters, with "_read_" and  *)
(* "_count_" each kept as one element.                                     *)
(***************************************************************************)
\* the largest --merging-threshold
MaxThreshold == 1
\* the largest --min-read-count
MaxMinReadCount == 2

\* the reads of a sample's dict before the alignment
MergeSeqs == ReadSeqs \cup {<<"C", "G">>, <<"A">>}

Digits == <<"0", "1", "2", "3", "4", "5", "6", "7", "8", "9">>
IsDigit(c) == \E k \in 1..Len(Digits) : Digits[k] = c
DigitValue(c) == (CHOOSE k \in 1..Len(Digits) : Digits[k] = c) - 1

\* str(n), for n >= 0
RECURSIVE Str(_)
Str(n) ==
  IF n < Len(Digits) THEN <<Digits[n + 1]>>
  ELSE Append(Str(n \div Len(Digits)), Digits[(n % Len(Digits)) + 1])

\* int(s), for a non-empty string of digits
RECURSIVE IntOf(_)
IntOf(s) ==
  IF Len(s) = 1 THEN DigitValue(s[1])
  ELSE Len(Digits) * IntOf(SubSeq(s, 1, Len(s) - 1)) + DigitValue(s[Len(s)])

\* lines 722-727: the alias of each bam file
BamAliases == [s \in Samples \cup Bams |-> <<"S", Digits[s + 1]>>]

\* lines 1058 and 1127: alias + '_read_' + str(k) + '_count_' + str(count)
SeqName(alias, k, count) ==
  alias \o <<"_read_">> \o Str(k) \o <<"_count_">> \o Str(count)

\* how many digits in a row end at position e of s
RECURSIVE DigitsBefore(_, _)
DigitsBefore(s, e) ==
  IF e >= 1 /\ IsDigit(s[e]) THEN 1 + DigitsBefore(s, e - 1) ELSE 0

\* where '_read_\d+_count_\d+' first matches in id, not held to the end of
\* id; 0 if it does not
SampleRegexFirstStart(id) ==
  LET matches == {r \in 1..Len(id) :
                    \E c \in (r + 2)..(Len(id) - 1) :
                      /\ id[r] = "_read_"
                      /\ id[c] = "_count_"
                      /\ \A k \in (r + 1)..(c - 1) : IsDigit(id[k])
                      /\ IsDigit(id[c + 1])}
  IN IF matches = {} THEN 0
     ELSE CHOOSE r \in matches : \A q \in matches : r <= q

\* line 1066: where '_read_\d+_count_\d+$' matches in id; 0 if it does not
SampleRegexStart(id) ==
  LET n2 == DigitsBefore(id, Len(id))
      c == Len(id) - n2
      n1 == DigitsBefore(id, c - 1)
      r == c - n1 - 1
  IN IF /\ n2 >= 1
        /\ c >= 1
        /\ id[c] = "_count_"
        /\ n1 >= 1
        /\ r >= 1
        /\ id[r] = "_read_"
     THEN r ELSE 0

\* the position of the last element of s, up to e, that holds a '_'
RECURSIVE LastUnderscore(_, _)
LastUnderscore(s, e) ==
  IF e = 0 THEN 0
  ELSE IF s[e] \in {"_read_", "_count_"} THEN e
  ELSE LastUnderscore(s, e - 1)

\* the number between '_read_' and '_count_'
RankFromName(id) ==
  IntOf(SubSeq(id, SampleRegexStart(id) + 1,
               Len(id) - DigitsBefore(id, Len(id)) - 1))

\* line 1081: int(seq.id.rsplit('_',1)[1])
CountFromName(id) ==
  IntOf(SubSeq(id, LastUnderscore(id, Len(id)) + 1, Len(id)))

(***************************************************************************)
(* pf.MergeSimilarStrings is defined in phyloscanner_funcs, which is not   *)
(* part of the source at hand; it is modelled from its contract: from the  *)
(* highest count to the lowest, each sequence not yet absorbed absorbs     *)
(* every later sequence of its length within the threshold, and the counts *)
(* are summed; equal counts are ordered lexicographically.                 *)
(***************************************************************************)
Alphabet == <<"-", "A", "C", "G", "T">>
CharRank(c) == CHOOSE k \in 1..Len(Alphabet) : Alphabet[k] = c

RECURSIVE LexLess(_, _)
LexLess(a, b) ==
  IF a = <<>> THEN b # <<>>
  ELSE IF b = <<>> THEN FALSE
  ELSE IF a[1] = b[1] THEN LexLess(Tail(a), Tail(b))
  ELSE CharRank(a[1]) < CharRank(b[1])

\* x is processed before y
ComesFirst(d, x, y) == d[x] > d[y] \/ (d[x] = d[y] /\ LexLess(x, y))

MostCommon(d, S) == CHOOSE x \in S : \A y \in S \ {x} : ComesFirst(d, x, y)

HammingDistance(a, b) == Cardinality({i \in 1..Len(a) : a[i] # b[i]})

Similar(a, b, t) == Len(a) = Len(b) /\ HammingDistance(a, b) <= t

RECURSIVE MergeGreedily(_, _, _, _)
MergeGreedily(d, left, t, merged) ==
  IF left = {} THEN merged
  ELSE LET head == MostCommon(d, left)
           absorbed == {x \in left \ {head} : Similar(x, head, t)}
       IN MergeGreedily(d, left \ ({head} \cup absorbed), t,
                        SetKey(merged, head, d[head] + SumOver(d, absorbed)))

MergeSimilarStrings(DictOfStringCounts, SimilarityThreshold) ==
  MergeGreedily(DictOfStringCounts, DOMAIN DictOfStringCounts,
                SimilarityThreshold, EmptyDict)

(***************************************************************************)
(* ProcessReadDict, ReadAlignedReadsIntoDicts, RemovePureGapCols and       *)
(* ReMergeAlignedReads.                                                    *)
(***************************************************************************)
\* line 45
GapChar == "-"

\* line 387
MergeReads == merging_threshold > 0

\* the merge called with a threshold one below the user's
MergedWithLowerThreshold(ReadDict) ==
  IF MergeReads THEN MergeSimilarStrings(ReadDict, merging_threshold - 1)
  ELSE ReadDict

\* lines 1040-1042 and 1120-1123
MergedReadDict(ReadDict) ==
  IF MergeReads THEN MergeSimilarStrings(ReadDict, merging_threshold)
  ELSE ReadDict

\* the minimum imposed only on a threshold above 2
MinCountImposedAboveTwo(ReadDict) ==
  IF min_read_count > 2
  THEN [read \in {r \in DOMAIN ReadDict : ReadDict[r] >= min_read_count}
          |-> ReadDict[read]]
  ELSE ReadDict

\* lines 1044-1047
MinCountImposed(ReadDict) ==
  IF min_read_count > 1
  THEN [read \in {r \in DOMAIN ReadDict : ReadDict[r] >= min_read_count}
          |-> ReadDict[read]]
  ELSE ReadDict

\* lines 1056-1057 and 1124-1125: sorted(d.items(), key=lambda x: x[1],
\* reverse=True); items of equal count come in the order of the dict, which
\* can be any
SortedByCount(d) ==
  {o \in [1..Cardinality(DOMAIN d) -> DOMAIN d] :
     \A i, j \in 1..Cardinality(DOMAIN d) :
       i < j => (o[i] # o[j] /\ d[o[i]] >= d[o[j]])}

\* one sorted order for each dict of ds
SortedOrders(ds) ==
  {f \in [DOMAIN ds -> UNION {SortedByCount(ds[a]) : a \in DOMAIN ds}] :
     \A a \in DOMAIN ds : f[a] \in SortedByCount(ds[a])}

\* lines 1055-1061 and 1124-1128: the reads of d, named by rank and count
NamedReads(d, alias, order) ==
  [k \in 1..Cardinality(DOMAIN d) |->
     [id |-> SeqName(alias, k, d[order[k]]), seq |-> order[k]]]

\* lines 1032-1062, for the dict as it is after lines 1040-1047
ProcessReadDict(kept, WhichBam, order) ==
  NamedReads(kept, BamAliases[WhichBam], order)

\* the lists lists[names[1]], ..., lists[names[n]], one after the other
RECURSIVE Concat(_, _, _)
Concat(lists, names, n) ==
  IF n = 0 THEN <<>>
  ELSE Concat(lists, names, n - 1) \o lists[names[n]]

\* lines 1068-1098, for the first n sequences of the alignment
RECURSIVE ReadAlignedReadsIntoDicts(_, _)
ReadAlignedReadsIntoDicts(AlignIOobject, n) ==
  IF n = 0
  THEN [names |-> <<>>, SampleReadCounts |-> EmptyDict, NonSampleSeqs |-> <<>>]
  ELSE LET sofar == ReadAlignedReadsIntoDicts(AlignIOobject, n - 1)
           seq == AlignIOobject[n]
           start == SampleRegexStart(seq.id)
           SampleName == SubSeq(seq.id, 1, start - 1)
           read == seq.seq
       IN IF start > 0 /\ SampleName \in Range(BamAliases)
          THEN LET value == CountFromName(seq.id)
               IN IF SampleName \in DOMAIN sofar.SampleReadCounts
                  THEN [sofar EXCEPT !.SampleReadCounts[SampleName] =
                          IF read \in DOMAIN @
                          THEN [@ EXCEPT ![read] = @ + value]
                          ELSE SetKey(@, read, value)]
                  ELSE [sofar EXCEPT
                          !.names = Append(@, SampleName),
                          !.SampleReadCounts =
                             SetKey(@, SampleName,
                                    SetKey(EmptyDict, read, value))]
          ELSE [sofar EXCEPT !.NonSampleSeqs = Append(@, seq)]

\* alignment.get_alignment_length()
AlignmentLength(alignment) ==
  IF alignment = <<>> THEN 0 ELSE Len(alignment[1].seq)

\* alignment[:, :column-1] + alignment[:, column:], columns counted from 1
WithoutColumn(alignment, column) ==
  [k \in 1..Len(alignment) |->
     [alignment[k] EXCEPT
        !.seq = SubSeq(@, 1, column - 1) \o SubSeq(@, column + 1, Len(@))]]

\* lines 1100-1111, from column down to the first column
RECURSIVE RemovePureGapColsFrom(_, _)
RemovePureGapColsFrom(alignment, column) ==
  IF column = 0 THEN alignment
  ELSE LET PureGap == \A k \in 1..Len(alignment) :
                        alignment[k].seq[column] = GapChar
       IN RemovePureGapColsFrom(
            IF PureGap THEN WithoutColumn(alignment, column) ELSE alignment,
            column - 1)

\* the loop of line 1103 begun one column short of the last
RemovePureGapColsSkippingLast(alignment) ==
  RemovePureGapColsFrom(alignment,
                        IF alignment = <<>> THEN 0
                        ELSE AlignmentLength(alignment) - 1)
\* lines 1100-1111
RemovePureGapCols(alignment) ==
  RemovePureGapColsFrom(alignment, AlignmentLength(alignment))

\* lines 1117-1123: the dict of each sample of the alignment, merged
ReMergedDicts(alignment) ==
  LET SampleReadCounts ==
        ReadAlignedReadsIntoDicts(alignment, Len(alignment)).SampleReadCounts
  IN [SampleName \in DOMAIN SampleReadCounts |->
        MergedReadDict(SampleReadCounts[SampleName])]

\* lines 1113-1134
ReMergeAlignedReads(alignment, orders) ==
  LET parts == ReadAlignedReadsIntoDicts(alignment, Len(alignment))
      merged == ReMergedDicts(alignment)
      renamed == [SampleName \in DOMAIN merged |->
                    NamedReads(merged[SampleName], SampleName,
                               orders[SampleName])]
      NewAlignment == Concat(renamed, parts.names, Len(parts.names))
                        \o parts.NonSampleSeqs
  IN IF MergeReads THEN RemovePureGapCols(NewAlignment) ELSE NewAlignment

(***************************************************************************)
(* The steps of an iteration that merge reads, from the dicts handed over  *)
(* by the extraction to the alignment with positions excised.              *)
(***************************************************************************)
\* the dicts of unique reads a sample can hand over: any reads of MergeSeqs
\* for the first sample, reads of ReadSeqs for the others
MergeDicts(s) ==
  UNION {[S -> 1..MaxCount] :
           S \in SUBSET (IF s = 1 THEN MergeSeqs ELSE ReadSeqs)}

InitMerge ==
  /\ LoopIdle
  /\ ContamIdle
  /\ FlowIdle
  /\ WindowIdle
  /\ ParIdle
  /\ CoordsIdle
  /\ NamesIdle
  /\ RecombIdle
  /\ ConfigIdle
  /\ FinishIdle
  /\ mpc = "dicts"
  /\ merging_threshold \in 0..MaxThreshold
  /\ min_read_count \in 1..MaxMinReadCount
  /\ ReadDicts \in {ds \in [Samples -> MergeDicts(1)] :
                      \A s \in Samples : ds[s] \in MergeDicts(s)}
  /\ AllReadsInThisWindow = <<>>
  /\ SeqAlignmentHere = <<>>
  /\ lastMerged = <<>>

\* lines 1504-1507: ProcessReadDict for each sample, in the order of the bam
\* files
ProcessReadDicts ==
  /\ mpc = "dicts"
  /\ LET merged == [s \in Samples |-> MergedReadDict(ReadDicts[s])]
         kept == [s \in Samples |-> MinCountImposed(merged[s])]
     IN /\ lastMerged' = merged
        /\ \E orders \in SortedOrders(kept) :
             AllReadsInThisWindow' =
               Concat([s \in Samples |->
                         ProcessReadDict(kept[s], s, orders[s])],
                      [s \in Samples |-> s], NumSamples)
  /\ mpc' = "named"
  /\ UNCHANGED <<merging_threshold, min_read_count, ReadDicts,
                 SeqAlignmentHere>>
  /\ UNCHANGED beyondMerge

\* n gap characters
Gaps(n) == [k \in 1..n |-> GapChar]

\* the longest read of a list
LongestRead(reads) ==
  CHOOSE n \in {Len(reads[k].seq) : k \in 1..Len(reads)} :
    \A k \in 1..Len(reads) : Len(reads[k].seq) <= n

\* lines 1605-1643: mafft aligns the reads, here by putting gaps to the left
\* or to the right of the shorter ones; names and order are kept
Aligned(reads, side) ==
  [k \in 1..Len(reads) |->
     [reads[k] EXCEPT
        !.seq = IF side = "left"
                THEN Gaps(LongestRead(reads) - Len(@)) \o @
                ELSE @ \o Gaps(LongestRead(reads) - Len(@))]]

\* lines 1511-1643: a window with at most one read is skipped, the others
\* are aligned
AlignReads ==
  /\ mpc = "named"
  /\ IF Len(AllReadsInThisWindow) <= 1
     THEN /\ mpc' = "skipped"
          /\ UNCHANGED SeqAlignmentHere
     ELSE /\ mpc' = "aligned"
          /\ \E side \in {"left", "right"} :
               SeqAlignmentHere' = Aligned(AllReadsInThisWindow, side)
  /\ UNCHANGED <<merging_threshold, min_read_count, ReadDicts,
                 AllReadsInThisWindow, lastMerged>>
  /\ UNCHANGED beyondMerge

\* the merged dict of each sample, empty for a sample with no read
MergedOfSamples(alignment) ==
  LET merged == ReMergedDicts(alignment)
  IN [s \in Samples |-> IF BamAliases[s] \in DOMAIN merged
                        THEN merged[BamAliases[s]] ELSE EmptyDict]

\* lines 1645-1654: the second round of merging, with MergeReads
ReMergeAfterAlignment ==
  /\ mpc = "aligned"
  /\ mpc' = "remerged"
  /\ IF MergeReads
     THEN /\ \E orders \in SortedOrders(ReMergedDicts(SeqAlignmentHere)) :
               SeqAlignmentHere' =
                 ReMergeAlignedReads(SeqAlignmentHere, orders)
          /\ lastMerged' = MergedOfSamples(SeqAlignmentHere)
     ELSE UNCHANGED <<SeqAlignmentHere, lastMerged>>
  /\ UNCHANGED <<merging_threshold, min_read_count, ReadDicts,
                 AllReadsInThisWindow>>
  /\ UNCHANGED beyondMerge

\* lines 1661-1725: a position of the window is excised from the alignment,
\* and the reads are merged again whatever the threshold
ExciseAndReMerge ==
  /\ mpc = "remerged"
  /\ mpc' = "excised"
  /\ \E pos \in 1..AlignmentLength(SeqAlignmentHere) :
       LET excised == WithoutColumn(SeqAlignmentHere, pos)
       IN /\ \E orders \in SortedOrders(ReMergedDicts(excised)) :
               SeqAlignmentHere' = ReMergeAlignedReads(excised, orders)
          /\ lastMerged' = MergedOfSamples(excised)
  /\ UNCHANGED <<merging_threshold, min_read_count, ReadDicts,
                 AllReadsInThisWindow>>
  /\ UNCHANGED beyondMerge

NextMerge ==
  \/ ProcessReadDicts
  \/ AlignReads
  \/ ReMergeAfterAlignment
  \/ ExciseAndReMerge

SpecMerge == InitMerge /\ [][NextMerge]_vars

(***************************************************************************)
(* Properties of the merging steps, checked under SpecMerge.               *)
(***************************************************************************)
\* a merging step has been taken
AfterMerging == mpc \in {"named", "aligned", "remerged", "excised", "skipped"}

\* C5: the similarity merge applied to its own output returns that output
\* unchanged, for every dict and every threshold t >= 0, and for the output
\* of the merge as ProcessReadDict and ReMergeAlignedReads call it.
C5_MergeIdempotent ==
  \A s \in Samples :
    /\ mpc = "dicts" =>
         LET once == MergeSimilarStrings(ReadDicts[s], merging_threshold)
         IN MergeSimilarStrings(once, merging_threshold) = once
    /\ AfterMerging =>
         MergeSimilarStrings(lastMerged[s], merging_threshold) = lastMerged[s]

\* of the four reads of a sample the merge of ProcessReadDict left three,
\* and the merge after the alignment left two of these
C5_Witness ==
  /\ mpc = "remerged"
  /\ MergeReads
  /\ \E s \in Samples :
       /\ Cardinality(DOMAIN ReadDicts[s]) = 4
       /\ Cardinality(DOMAIN MinCountImposed(MergedReadDict(ReadDicts[s]))) = 3
       /\ Cardinality(DOMAIN lastMerged[s]) = 2

\* the count written at the end of a name
WrittenCount(id) ==
  IntOf(SubSeq(id, Len(id) - DigitsBefore(id, Len(id)) + 1, Len(id)))

\* the total of the counts written in the names of sample s among the first
\* n sequences of an alignment
RECURSIVE TotalWritten(_, _, _)
TotalWritten(alignment, n, s) ==
  IF n = 0 THEN 0
  ELSE TotalWritten(alignment, n - 1, s) +
       (IF SubSeq(alignment[n].id, 1, Len(BamAliases[s])) = BamAliases[s]
        THEN WrittenCount(alignment[n].id) ELSE 0)

\* C6: each merging step keeps the total of every sample's counts: the merge
\* of ProcessReadDict, before the minimum count is imposed, and each call of
\* ReMergeAlignedReads, for the counts written in the names before and after
\* it, with any threshold and after an excision.
C6_MergingKeepsTotals ==
  [][\A s \in Samples :
       /\ (mpc = "dicts" /\ mpc' = "named") =>
            TotalCount(lastMerged'[s]) = TotalCount(ReadDicts[s])
       /\ (mpc' \in {"remerged", "excised"} /\ mpc' # mpc) =>
            TotalWritten(SeqAlignmentHere', Len(SeqAlignmentHere'), s) =
              TotalWritten(SeqAlignmentHere, Len(SeqAlignmentHere), s)]_vars

\* without merging (threshold 0), an excision made two reads of a sample
\* identical: they became one read whose name carries the sum of the counts
C6_Witness ==
  /\ mpc = "excised"
  /\ merging_threshold = 0
  /\ Len(SeqAlignmentHere) < Len(AllReadsInThisWindow)
  /\ \E k \in 1..Len(SeqAlignmentHere) :
       WrittenCount(SeqAlignmentHere[k].id) = 3

\* the sequences of sample s in a list of named reads, each with the count
\* written in its name
WrittenFor(reads, s) ==
  {<<reads[k].seq, WrittenCount(reads[k].id)>> :
     k \in {i \in 1..Len(reads) :
              SubSeq(reads[i].id, 1, Len(BamAliases[s])) = BamAliases[s]}}

\* C21: every sequence of a sample passed on to the alignment has a count
\* of at least --min-read-count, the count being the one after the merge of
\* ProcessReadDict, so that exactly the sequences whose merged count reaches
\* the minimum are passed on; the merges after the alignment leave no count
\* below the minimum
C21_MinimumCountKept ==
  \A s \in Samples :
    /\ mpc = "named" =>
         WrittenFor(AllReadsInThisWindow, s) =
           {<<r, lastMerged[s][r]>> :
              r \in {x \in DOMAIN lastMerged[s] :
                       lastMerged[s][x] >= min_read_count}}
    /\ mpc \in {"aligned", "remerged", "excised"} =>
         \A rc \in WrittenFor(SeqAlignmentHere, s) : rc[2] >= min_read_count

\* every read of a sample was below the minimum before the merge, the merge
\* made one of them reach it, and that one was passed on and aligned
C21_Witness ==
  /\ mpc = "remerged"
  /\ min_read_count = 2
  /\ \E s \in Samples :
       /\ DOMAIN ReadDicts[s] # {}
       /\ \A r \in DOMAIN ReadDicts[s] : ReadDicts[s][r] < min_read_count
       /\ WrittenFor(AllReadsInThisWindow, s) # {}
       /\ WrittenFor(SeqAlignmentHere, s) # {}

(***************************************************************************)
(* SpecWindow: one iteration of the window loop from the reading of the    *)
(* contaminant file of an earlier run (lines 1213-1234) through the        *)
(* hand-over of each sample's dict of unique reads (lines 1396-1424) and   *)
(* the check for duplicates (lines 1444-1499, the actions of SpecContam)   *)
(* to the processing of the dicts (lines 1500-1507). An alias is modelled  *)
(* by the position of its bam file.                                        *)
(***************************************************************************)
\* the dicts of unique reads the extraction can leave for a sample: any
\* reads of ReadSeqs for the first two samples, the first read of ReadSeqs
\* or none for the others
ExtractedDicts(s) ==
  UNION {[S -> 1..MaxCount] :
           S \in SUBSET (IF s <= 2 THEN ReadSeqs ELSE {<<"A", "C">>})}

\* the ratios that pass the check of lines 460-466
ValidRatios == {r \in RatioChoices : ~RatioBelowOne(r)}

\* the entries a contaminant file can hold: <<seq.id, str(seq.seq)>>
FileEntries == (1..2) \X ReadSeqs

\* the contaminant files of an earlier run
ContaminantFiles ==
  UNION {[1..n -> FileEntries] : n \in 1..MaxFileEntries}

InitWindow ==
  /\ LoopIdle
  /\ FlowIdle
  /\ ParIdle
  /\ CoordsIdle
  /\ NamesIdle
  /\ RecombIdle
  /\ ConfigIdle
  /\ FinishIdle
  /\ cpc = "file"
  /\ CheckDuplicates \in BOOLEAN
  \* lines 469-473: flagging contaminants requires the check for duplicates
  /\ FlagContaminants \in (IF CheckDuplicates THEN BOOLEAN ELSE {FALSE})
  /\ contaminant_count_ratio \in
       (IF FlagContaminants THEN ValidRatios ELSE {None})
  \* line 358: the option "only makes sense" with a ratio
  /\ flag_contaminants_only \in (IF FlagContaminants THEN BOOLEAN ELSE {FALSE})
  /\ RecallContaminants \in BOOLEAN
  /\ ContaminantFile \in
       (IF RecallContaminants THEN ContaminantFiles \cup {None} ELSE {None})
  /\ ContaminantReadsInput = EmptyDict
  /\ extracted \in {ds \in [Bams -> ExtractedDicts(1)] :
                      \A s \in Bams : ds[s] \in ExtractedDicts(s)}
  /\ wbam = 1
  /\ warned = {}
  /\ AllReadDictsInThisWindow = <<>>
  /\ ReadDictsBefore = <<>>
  /\ pair = <<1, 2>>
  /\ todo = {}
  /\ DuplicateDetails = <<>>
  /\ ContaminantReadsFound = EmptyDict
  /\ mpc = "idle"
  /\ merging_threshold \in 0..MaxThreshold
  /\ min_read_count \in 1..MaxMinReadCount
  /\ ReadDicts = <<>>
  /\ AllReadsInThisWindow = <<>>
  /\ SeqAlignmentHere = <<>>
  /\ lastMerged = <<>>

\* lines 1230-1234, for the first n entries of the file
RECURSIVE ParsedContaminants(_, _)
ParsedContaminants(file, n) ==
  IF n = 0 THEN EmptyDict
  ELSE LET sofar == ParsedContaminants(file, n - 1)
           id == file[n][1]
           seq == file[n][2]
       IN IF id \in DOMAIN sofar
          THEN [sofar EXCEPT ![id] = Append(@, seq)]
          ELSE SetKey(sofar, id, <<seq>>)

\* lines 1213-1234
ReadContaminantFile ==
  /\ cpc = "file"
  /\ cpc' = "bams"
  /\ ContaminantReadsInput' =
       IF RecallContaminants /\ ContaminantFile # None
       THEN ParsedContaminants(ContaminantFile, Len(ContaminantFile))
       ELSE EmptyDict
  /\ AllReadsInThisWindow' = <<>>
  /\ AllReadDictsInThisWindow' = <<>>
  /\ UNCHANGED <<FlagContaminants, contaminant_count_ratio, ReadDictsBefore,
                 pair, todo, DuplicateDetails, ContaminantReadsFound>>
  /\ UNCHANGED <<mpc, merging_threshold, min_read_count, ReadDicts,
                 SeqAlignmentHere, lastMerged>>
  /\ UNCHANGED <<CheckDuplicates, RecallContaminants, flag_contaminants_only,
                 ContaminantFile, extracted, wbam, warned>>
  /\ UNCHANGED beyondWindow

\* lines 1400-1412, for the first n reads listed for the sample: each is
\* deleted from the dict; one that is not there is warned about, once
RECURSIVE RecalledRemovedFrom(_, _, _)
RecalledRemovedFrom(d, reads, n) ==
  IF n = 0 THEN [dict |-> d, HaveWarned |-> FALSE]
  ELSE LET sofar == RecalledRemovedFrom(d, reads, n - 1)
       IN IF reads[n] \in DOMAIN sofar.dict
          THEN [sofar EXCEPT !.dict = DelKey(@, reads[n])]
          ELSE [sofar EXCEPT !.HaveWarned = TRUE]

\* the recalled contaminants removed only when the check for duplicates is
\* not made
RecalledRemovedUnlessChecked(d, BamAlias) ==
  IF BamAlias \in DOMAIN ContaminantReadsInput /\ ~CheckDuplicates
  THEN RecalledRemovedFrom(d, ContaminantReadsInput[BamAlias],
                           Len(ContaminantReadsInput[BamAlias]))
  ELSE [dict |-> d, HaveWarned |-> FALSE]

\* lines 1400-1412: UniqueReads of the sample whose alias is BamAlias, after
\* the contaminants recalled for it have been removed
RecalledRemoved(d, BamAlias) ==
  IF BamAlias \in DOMAIN ContaminantReadsInput
  THEN RecalledRemovedFrom(d, ContaminantReadsInput[BamAlias],
                           Len(ContaminantReadsInput[BamAlias]))
  ELSE [dict |-> d, HaveWarned |-> FALSE]

\* lines 1417-1418: the dict recorded for the check for duplicates
HandedOver(UniqueReadsHere) == UniqueReadsHere

\* lines 1396-1424, for the bam file at position wbam
HandOver ==
  /\ cpc = "bams"
  /\ wbam <= NumBams
  /\ LET removed == RecalledRemoved(extracted[wbam], wbam)
         merged == MergedReadDict(removed.dict)
         kept == MinCountImposed(merged)
     IN /\ warned' = IF removed.HaveWarned THEN warned \cup {wbam} ELSE warned
        /\ ReadDictsBefore' = Append(ReadDictsBefore, removed.dict)
        /\ IF CheckDuplicates
           THEN /\ AllReadDictsInThisWindow' =
                     Append(AllReadDictsInThisWindow, HandedOver(removed.dict))
                /\ UNCHANGED <<AllReadsInThisWindow, lastMerged>>
           ELSE /\ \E order \in SortedByCount(kept) :
                     AllReadsInThisWindow' =
                       AllReadsInThisWindow
                         \o ProcessReadDict(kept, wbam, order)
                /\ lastMerged' = Append(lastMerged, merged)
                /\ UNCHANGED AllReadDictsInThisWindow
  /\ wbam' = wbam + 1
  /\ UNCHANGED <<cpc, FlagContaminants, contaminant_count_ratio, pair, todo,
                 DuplicateDetails, ContaminantReadsFound>>
  /\ UNCHANGED <<mpc, merging_threshold, min_read_count, ReadDicts,
                 SeqAlignmentHere>>
  /\ UNCHANGED <<CheckDuplicates, RecallContaminants, flag_contaminants_only,
                 ContaminantFile, ContaminantReadsInput, extracted>>
  /\ UNCHANGED beyondWindow

\* lines 1436-1450: all bam files have been read; with CheckDuplicates the
\* loops over the pairs of dicts start
EndOfBams ==
  /\ cpc = "bams"
  /\ wbam > NumBams
  /\ IF CheckDuplicates
     THEN /\ cpc' = "compare"
          /\ DuplicateDetails' = <<>>
          /\ ContaminantReadsFound' = EmptyDict
          /\ pair' = <<1, 2>>
          /\ todo' = DOMAIN AllReadDictsInThisWindow[1]
     ELSE /\ cpc' = "processed"
          /\ UNCHANGED <<DuplicateDetails, ContaminantReadsFound, pair, todo>>
  /\ UNCHANGED <<FlagContaminants, contaminant_count_ratio,
                 AllReadDictsInThisWindow, ReadDictsBefore>>
  /\ UNCHANGED <<mergeVars, windowVars>>
  /\ UNCHANGED beyondWindow

\* lines 1500-1507: unless only contaminants are wanted, each dict of the
\* list is processed, in the order of the list
ProcessHandedOver ==
  /\ cpc = "done"
  /\ wbam > NumBams
  /\ IF flag_contaminants_only
     THEN /\ cpc' = "continue"
          /\ UNCHANGED <<AllReadsInThisWindow, lastMerged>>
     ELSE /\ cpc' = "processed"
          /\ LET merged == [s \in Bams |->
                              MergedReadDict(AllReadDictsInThisWindow[s])]
                 kept == [s \in Bams |-> MinCountImposed(merged[s])]
             IN /\ lastMerged' = merged
                /\ \E orders \in SortedOrders(kept) :
                     AllReadsInThisWindow' =
                       Concat([s \in Bams |->
                                 ProcessReadDict(kept[s], s, orders[s])],
                              [s \in Bams |-> s], NumBams)
  /\ UNCHANGED <<FlagContaminants, contaminant_count_ratio,
                 AllReadDictsInThisWindow, ReadDictsBefore, pair, todo,
                 DuplicateDetails, ContaminantReadsFound>>
  /\ UNCHANGED <<mpc, merging_threshold, min_read_count, ReadDicts,
                 SeqAlignmentHere>>
  /\ UNCHANGED windowVars
  /\ UNCHANGED beyondWindow

NextWindow ==
  \/ ReadContaminantFile
  \/ HandOver
  \/ EndOfBams
  \/ CompareRead
  \/ NextPair
  \/ RemoveContaminants
  \/ ProcessHandedOver

SpecWindow == InitWindow /\ [][NextWindow]_vars

(***************************************************************************)
(* Properties of the hand-over, checked under SpecWindow.                  *)
(***************************************************************************)
\* the dict of sample s at the hand-over, after the merge of similar reads
MergedAtHandOver(s) == MergedReadDict(ReadDictsBefore[s])

\* C11: the check for duplicates between samples compares each sample's
\* counts as they are after the first merge of similar reads: every row of
\* the report holds the two merged counts of a read that both merged dicts
\* hold.
C11_ComparedAfterMerge ==
  \A k \in 1..Len(DuplicateDetails) :
    LET row == DuplicateDetails[k]
    IN \E read \in DOMAIN MergedAtHandOver(row[1])
                     \cap DOMAIN MergedAtHandOver(row[2]) :
         /\ MergedAtHandOver(row[1])[read] = row[3]
         /\ MergedAtHandOver(row[2])[read] = row[4]

\* the check for duplicates has visited every pair of dicts
AllPairsCompared ==
  CheckDuplicates /\ cpc \in {"remove", "done", "processed", "continue"}

\* the rows of the report for the pair of aliases <<i, j>>
RowsOf(i, j) ==
  {k \in 1..Len(DuplicateDetails) :
     DuplicateDetails[k][1] = i /\ DuplicateDetails[k][2] = j}

\* the reads both samples held at the hand-over
SharedReads(i, j) == DOMAIN ReadDictsBefore[i] \cap DOMAIN ReadDictsBefore[j]

\* a list holds no read twice
NoRepeats(list) ==
  \A k, l \in 1..Len(list) : k # l => list[k] # list[l]

\* C12: once all pairs are compared the raw report holds, for each pair of
\* samples i < j, exactly one row per read that both held, with the counts
\* they had at the hand-over, and no other row, with or without the flagging
\* of contaminants; no list of contaminants holds a read twice, and the
\* removal of the contaminants never fails on a read already removed.
C12_OneRowPerSharedRead ==
  /\ cpc # "KeyError"
  /\ \A alias \in DOMAIN ContaminantReadsFound :
       NoRepeats(ContaminantReadsFound[alias])
  /\ AllPairsCompared =>
       /\ \A k \in 1..Len(DuplicateDetails) :
            DuplicateDetails[k][1] < DuplicateDetails[k][2]
       /\ \A i, j \in Bams :
            i < j =>
              /\ Cardinality(RowsOf(i, j)) = Cardinality(SharedReads(i, j))
              /\ \A read \in SharedReads(i, j) :
                   \E k \in RowsOf(i, j) :
                     /\ DuplicateDetails[k][3] = ReadDictsBefore[i][read]
                     /\ DuplicateDetails[k][4] = ReadDictsBefore[j][read]

\* a read of the second sample was diagnosed as a contaminant against the
\* first sample and again against the third; it is listed once and has been
\* removed, and the report has a row for each of the three pairs
C12_Witness ==
  /\ cpc = "done"
  /\ FlagContaminants
  /\ contaminant_count_ratio = <<2, 1>>
  /\ \E read \in SharedReads(1, 2) \cap SharedReads(2, 3) :
       /\ ReadDictsBefore[1][read] = 2
       /\ ReadDictsBefore[2][read] = 1
       /\ ReadDictsBefore[3][read] = 2
       /\ ContaminantReadsFound = SetKey(EmptyDict, 2, <<read>>)
       /\ read \notin DOMAIN AllReadDictsInThisWindow[2]
  /\ \A i, j \in Bams : i < j => RowsOf(i, j) # {}

\* the sequences the contaminant file of this window lists for sample s
ListedFor(s) ==
  IF ContaminantFile = None THEN {}
  ELSE {ContaminantFile[k][2] :
          k \in {l \in 1..Len(ContaminantFile) : ContaminantFile[l][1] = s}}

\* the dict of sample s as the extraction left it, without the sequences
\* listed for s
ExtractedWithoutListed(s) ==
  [read \in DOMAIN extracted[s] \ ListedFor(s) |-> extracted[s][read]]

\* C13: every sample handed over has lost exactly the sequences the
\* contaminant file of the window lists for it, before its dict is compared
\* with the others (or processed, without the check for duplicates); its
\* other counts are as extracted, a sample the file does not name is
\* unchanged, as is every sample when there is no file; a listed sequence
\* that the sample does not hold is warned about and the run goes on.
C13_RecalledContaminantsRemoved ==
  /\ cpc = "file" => wbam = 1
  /\ cpc # "file" =>
       \A s \in 1..(wbam - 1) :
         /\ ReadDictsBefore[s] = ExtractedWithoutListed(s)
         /\ ListedFor(s) = {} => ReadDictsBefore[s] = extracted[s]
         /\ (\E read \in ListedFor(s) : read \notin DOMAIN extracted[s])
              => s \in warned
  /\ (cpc = "compare" /\ pair = <<1, 2>> /\ DuplicateDetails = <<>>) =>
       /\ wbam = NumBams + 1
       /\ \A s \in Bams :
            AllReadDictsInThisWindow[s] = ExtractedWithoutListed(s)

\* the file lists two sequences for a sample that held one of them: that one
\* has been removed, the other was warned about, the rest of the dict and the
\* dict of another sample that holds the removed sequence are as extracted,
\* and the check for duplicates has begun
C13_Witness ==
  /\ cpc = "compare"
  /\ \E s \in Bams :
       /\ s \in warned
       /\ \E read \in ListedFor(s) \cap DOMAIN extracted[s] :
            /\ read \notin DOMAIN AllReadDictsInThisWindow[s]
            /\ \E o \in Bams \ {s} :
                 /\ ListedFor(o) = {}
                 /\ read \in DOMAIN AllReadDictsInThisWindow[o]
       /\ \E read \in ListedFor(s) : read \notin DOMAIN extracted[s]

(***************************************************************************)
(* SpecPar: the body of the loop over the bam files (lines 1237-1435) for  *)
(* the samples of one window, each sample's run of the body taking its     *)
(* steps (one read of the fetch loop, then the rest of the body with the   *)
(* hand-over of line 1417) in any interleaving with the others; the check  *)
(* for duplicates starts when every sample has handed over. A read is      *)
(* <<name, seq, outcome>>: its query_name, what ProcessRead returns for it *)
(* (or for the pair it completes), and what MergeReadPairOverWindow        *)
(* returns when its mate is held.                                          *)
(***************************************************************************)
\* the reads BamFile.fetch can return
ParReads ==
  {r \in Names \X (ReadSeqs \cup {None}) \X MergeOutcomes :
     r[3] # "Merged" => r[2] = None}

\* the lists of reads of one sample: a pair can fail to merge only when the
\* read follows its mate
ParReadLists(merge) ==
  {l \in UNION {[1..n -> ParReads] : n \in 0..MaxReads} :
     \A k \in 1..Len(l) :
       l[k][3] # "Merged" =>
         (merge /\ k > 1 /\ l[k - 1][1] = l[k][1])}

\* a run of the loop body before its first read (lines 1269-1274)
ThreadStart ==
  [at |-> "fetch", next |-> 1, AllReads |-> EmptyDict,
   UniqueReads |-> EmptyDict]

InitPar ==
  /\ CoordsIdle
  /\ NamesIdle
  /\ RecombIdle
  /\ ConfigIdle
  /\ FinishIdle
  /\ ContamIdle
  /\ FlowIdle
  /\ MergeIdle
  /\ WindowIdle
  /\ pc = "bams"
  /\ window = 0
  /\ opts \in Options
  /\ ThisWindow = <<NegInf, NegInf>>
  /\ OverlapsLastWindow \in (IF opts.forbid_read_repeats THEN BOOLEAN
                             ELSE {FALSE})
  /\ AllPatientsReadNamesInThisWindow = NoNames
  /\ AllPatientsReadNamesInLastWindow \in
       (IF opts.forbid_read_repeats THEN {NoNames, [s \in Samples |-> {1}]}
        ELSE {NoNames})
  /\ bam = 1
  /\ fetched = 0
  /\ matesSeen = NoMates
  /\ AllReads = EmptyDict
  /\ UniqueReads = EmptyDict
  /\ DiscardedReadPairsDict = [s \in Samples |-> <<>>]
  /\ yielded = NoNames
  /\ credited = NoCredit
  /\ yieldedLast = NoNames
  /\ inRun = NoNames
  /\ sharesLast = FALSE
  /\ runLength = 0
  /\ skippedTwice = {}
  /\ disagreed = {}
  /\ ended = "none"
  /\ bamReads \in [Samples -> ParReadLists(opts.merge_paired_reads)]
  /\ thread = [s \in Samples |-> ThreadStart]
  /\ recordedAlias = <<>>

\* what one sample's run of the loop body reads and writes: the two dicts of
\* the run, and the dicts of the script that have an entry per bam file
World(s) ==
  [AllReads |-> thread[s].AllReads,
   UniqueReads |-> thread[s].UniqueReads,
   ThisWindowNames |-> AllPatientsReadNamesInThisWindow,
   Discarded |-> DiscardedReadPairsDict]

\* lines 1329-1339 and 1376-1385 for sample s: the name is recorded and the
\* sequence counted unless the name was seen in the last, overlapping window
Counted(w, s, name, seq) ==
  LET recorded == IF opts.forbid_read_repeats
                  THEN [w EXCEPT !.ThisWindowNames[s] = @ \cup {name}]
                  ELSE w
  IN IF /\ opts.forbid_read_repeats
        /\ OverlapsLastWindow
        /\ name \in AllPatientsReadNamesInLastWindow[s]
     THEN recorded
     ELSE [recorded EXCEPT !.UniqueReads = IncrementCount(@, seq)]

\* lines 1283-1348 for one read of sample s
AfterRead(w, s, read) ==
  LET name == read[1]
      seq == read[2]
      outcome == read[3]
  IN IF opts.merge_paired_reads
     THEN IF name \in DOMAIN w.AllReads /\ outcome # "Merged"
          THEN [w EXCEPT
                  !.AllReads = DelKey(@, name),
                  !.Discarded[s] =
                     IF outcome = "False" /\ opts.inspect_disagreeing_overlaps
                     THEN @ \o << <<name, 1>>, <<name, 2>> >>
                     ELSE @]
          ELSE [w EXCEPT !.AllReads = SetKey(@, name, seq)]
     ELSE IF seq = None THEN w
          ELSE IF opts.forbid_read_repeats /\ name \in w.ThisWindowNames[s]
               THEN w
               ELSE Counted(w, s, name, seq)

\* lines 1355-1385 for the reads of AllReads whose names are in the set
RECURSIVE AfterAllReads(_, _, _)
AfterAllReads(w, s, names) ==
  IF names = {} THEN w
  ELSE LET name == CHOOSE n \in names : TRUE
           seq == w.AllReads[name]
       IN AfterAllReads(IF seq = None THEN w ELSE Counted(w, s, name, seq),
                        s, names \ {name})

\* lines 1351-1394: the end of the fetch loop of sample s
AfterFetchLoop(w, s) ==
  IF opts.merge_paired_reads THEN AfterAllReads(w, s, DOMAIN w.AllReads)
  ELSE w

\* the variables of the script that the loop body of a sample does not write
\* in SpecPar
ParFrame ==
  <<pc, window, opts, ThisWindow, OverlapsLastWindow,
    AllPatientsReadNamesInLastWindow, bam, fetched, matesSeen, AllReads,
    UniqueReads, histVars, flowVars, mergeVars, windowVars, coordVars,
    nameVars, recombVars, configVars, finishVars,
    bamReads, cpc,
    FlagContaminants, contaminant_count_ratio, ReadDictsBefore, pair, todo,
    ContaminantReadsFound>>

\* lines 1275-1348: sample s takes the next read of its fetch loop
ParFetch(s) ==
  /\ pc = "bams"
  /\ thread[s].at = "fetch"
  /\ thread[s].next <= Len(bamReads[s])
  /\ LET w == AfterRead(World(s), s, bamReads[s][thread[s].next])
     IN /\ thread' = [thread EXCEPT ![s].next = @ + 1,
                                   ![s].AllReads = w.AllReads,
                                   ![s].UniqueReads = w.UniqueReads]
        /\ AllPatientsReadNamesInThisWindow' = w.ThisWindowNames
        /\ DiscardedReadPairsDict' = w.Discarded
  /\ UNCHANGED <<AllReadDictsInThisWindow, recordedAlias, DuplicateDetails>>
  /\ UNCHANGED ParFrame

\* lines 1351-1435: the fetch loop of sample s has ended; the reads held in
\* AllReads are processed and the dict is recorded (lines 1417-1418)
ParHandOver(s) ==
  /\ pc = "bams"
  /\ thread[s].at = "fetch"
  /\ thread[s].next > Len(bamReads[s])
  /\ LET w == AfterFetchLoop(World(s), s)
     IN /\ thread' = [thread EXCEPT ![s].at = "handed",
                                   ![s].UniqueReads = w.UniqueReads]
        /\ AllPatientsReadNamesInThisWindow' = w.ThisWindowNames
        /\ DiscardedReadPairsDict' = w.Discarded
        /\ AllReadDictsInThisWindow' =
             Append(AllReadDictsInThisWindow, w.UniqueReads)
        /\ recordedAlias' = Append(recordedAlias, s)
  /\ UNCHANGED DuplicateDetails
  /\ UNCHANGED ParFrame

\* the rows of lines 1447-1457 for a list of dicts and their aliases, each
\* with the read it is about
ReportRows(dicts, aliases) ==
  {<<aliases[i], aliases[j], dicts[i][read], dicts[j][read], read>> :
     <<i, j, read>> \in
       {t \in (1..Len(dicts)) \X (1..Len(dicts)) \X ReadSeqs :
          /\ t[1] < t[2]
          /\ t[3] \in DOMAIN dicts[t[1]]
          /\ t[3] \in DOMAIN dicts[t[2]]}}

\* the lists that hold each element of a set once
Orderings(S) ==
  {o \in [1..Cardinality(S) -> S] :
     \A k, l \in 1..Cardinality(S) : k # l => o[k] # o[l]}

\* lines 1436-1457: every sample has handed over, and the dicts are compared
\* pair by pair, the reads of a dict in any order
ParCheckDuplicates ==
  /\ pc = "bams"
  /\ \A s \in Samples : thread[s].at = "handed"
  /\ pc' = "compared"
  /\ \E o \in Orderings(ReportRows(AllReadDictsInThisWindow, recordedAlias)) :
       DuplicateDetails' =
         [k \in 1..Len(o) |-> <<o[k][1], o[k][2], o[k][3], o[k][4]>>]
  /\ UNCHANGED <<window, opts, ThisWindow, OverlapsLastWindow,
                 AllPatientsReadNamesInThisWindow,
                 AllPatientsReadNamesInLastWindow, bam, fetched, matesSeen,
                 AllReads, UniqueReads, DiscardedReadPairsDict>>
  /\ UNCHANGED <<cpc, FlagContaminants, contaminant_count_ratio,
                 AllReadDictsInThisWindow, ReadDictsBefore, pair, todo,
                 ContaminantReadsFound>>
  /\ UNCHANGED <<histVars, flowVars, mergeVars, windowVars, parVars,
                 coordVars, nameVars, recombVars, configVars,
    finishVars>>

NextPar ==
  \/ \E s \in Samples : ParFetch(s)
  \/ \E s \in Samples : ParHandOver(s)
  \/ ParCheckDuplicates

SpecPar == InitPar /\ [][NextPar]_vars

(***************************************************************************)
(* The sequential order (lines 1237-1435 as the script runs them: the bam  *)
(* files one after the other) and the comparison with it, checked under    *)
(* SpecPar.                                                                *)
(***************************************************************************)
\* the fetch loop of sample s over its first n reads
RECURSIVE AfterReads(_, _, _)
AfterReads(w, s, n) ==
  IF n = 0 THEN w
  ELSE AfterRead(AfterReads(w, s, n - 1), s, bamReads[s][n])

\* the loop of line 1237 over the first k bam files, in order
RECURSIVE Sequential(_)
Sequential(k) ==
  IF k = 0
  THEN [ThisWindowNames |-> NoNames,
        Discarded |-> [s \in Samples |-> <<>>],
        dicts |-> <<>>, aliases |-> <<>>]
  ELSE LET before == Sequential(k - 1)
           start == [AllReads |-> EmptyDict, UniqueReads |-> EmptyDict,
                     ThisWindowNames |-> before.ThisWindowNames,
                     Discarded |-> before.Discarded]
           w == AfterFetchLoop(AfterReads(start, k, Len(bamReads[k])), k)
       IN [ThisWindowNames |-> w.ThisWindowNames,
           Discarded |-> w.Discarded,
           dicts |-> Append(before.dicts, w.UniqueReads),
           aliases |-> Append(before.aliases, k)]

\* the rows of a report, without the reads they are about
RowsWritten(rows) == {<<r[1], r[2], r[3], r[4]>> : r \in rows}

\* the dict recorded for the sample whose alias is s
RecordedFor(s) ==
  AllReadDictsInThisWindow[CHOOSE k \in 1..Len(recordedAlias) :
                             recordedAlias[k] = s]

\* the samples' runs of the loop body, interleaved in any way, leave each
\* sample's dict, ledger entry and list of discarded pairs as the sequential
\* order leaves them
ParSameExtraction ==
  pc = "compared" =>
    /\ \A s \in Samples : RecordedFor(s) = Sequential(NumSamples).dicts[s]
    /\ AllPatientsReadNamesInThisWindow = Sequential(NumSamples).ThisWindowNames
    /\ DiscardedReadPairsDict = Sequential(NumSamples).Discarded

IntCoord(n) == [NaN |-> FALSE, int |-> n]
NaNCoord == [NaN |-> TRUE, int |-> 0]

\* the field 'NaN'
NaNField == <<"N", "a", "N">>

\* int(field) does not raise ValueError: an optional sign, then digits
IsIntField(field) ==
  LET digits == IF field # <<>> /\ field[1] = "-" THEN Tail(field) ELSE field
  IN /\ digits # <<>>
     /\ \A k \in 1..Len(digits) : IsDigit(digits[k])

\* int(field)
IntOfField(field) ==
  IF field[1] = "-" THEN 0 - IntOf(Tail(field)) ELSE IntOf(field)

\* line 796: '.5' in field
HasPointFive(field) ==
  \E k \in 1..(Len(field) - 1) : field[k] = "." /\ field[k + 1] = "5"

\* where the point of a field is; 0 if it has none
PointAt(field) ==
  IF \E k \in 1..Len(field) : field[k] = "."
  THEN CHOOSE k \in 1..Len(field) :
         field[k] = "." /\ \A l \in 1..(k - 1) : field[l] # "."
  ELSE 0

\* float(field) does not raise ValueError: digits, a point, digits
IsFloatField(field) ==
  LET p == PointAt(field)
  IN /\ p > 1
     /\ p < Len(field)
     /\ \A k \in 1..Len(field) : k # p => IsDigit(field[k])

\* int(float(field)): the digits before the point
IntOfFloatField(field) == IntOf(SubSeq(field, 1, PointAt(field) - 1))

\* line 797: int(float(coords[i]))
RoundedDown(field) == IntOfFloatField(field)

\* lines 791-802 for one field: the coordinate, or how the script ends
ParsedCoord(field) ==
  IF field = NaNField THEN [end |-> "none", coord |-> NaNCoord]
  ELSE IF IsIntField(field)
  THEN [end |-> "none", coord |-> IntCoord(IntOfField(field))]
  ELSE IF HasPointFive(field)
  THEN IF IsFloatField(field)
       THEN [end |-> "none", coord |-> IntCoord(RoundedDown(field))]
       ELSE [end |-> "ValueError", coord |-> NaNCoord]
  ELSE [end |-> "exit", coord |-> NaNCoord]

\* lines 766-804 for the first n lines of the output: CoordsDict, or how the
\* script ends; a line is [name, fields]
RECURSIVE TranslateCoords(_, _, _)
TranslateCoords(lines, n, numCoords) ==
  IF n = 0 THEN [end |-> "none", CoordsDict |-> EmptyDict]
  ELSE LET sofar == TranslateCoords(lines, n - 1, numCoords)
           fields == lines[n].fields
           parsed == [i \in 1..Len(fields) |-> ParsedCoord(fields[i])]
           bad == {i \in 1..Len(fields) : parsed[i].end # "none"}
       IN IF sofar.end # "none" THEN sofar
          ELSE IF Len(fields) + 1 # numCoords + 1
          THEN [sofar EXCEPT !.end = "exit"]
          ELSE IF bad # {}
          THEN [sofar EXCEPT
                  !.end = parsed[CHOOSE i \in bad :
                                   \A j \in bad : i <= j].end]
          ELSE [sofar EXCEPT
                  !.CoordsDict =
                     SetKey(@, lines[n].name,
                            [i \in 1..Len(fields) |-> parsed[i].coord])]

\* the name of the external reference, and a name that no sequence has
ExternalRefName == <<"R">>
UnknownName == <<"X">>

\* lines 524-541: lists of window coordinates that pass the sanity check
ValidWindowCoords(numWindows) ==
  {w \in [1..(2 * numWindows) -> 1..MaxCoord] :
     \A k \in 1..numWindows : w[2 * k - 1] < w[2 * k]}

\* the field of the column before the sequence starts
BeforeStartField == <<"-">> \o Str(1)

\* what the translator returns for one column and a sequence of the given
\* length, in the order of the columns: before the sequence, a base, inside
\* a deletion after a base, after the sequence
GoodFields(length) ==
  <<BeforeStartField>>
  \o [k \in 1..(2 * length - 1) |->
        IF k % 2 = 1 THEN Str((k + 1) \div 2)
        ELSE Str(k \div 2) \o <<".", "5">>]
  \o <<NaNField>>

\* fields the script cannot read as a coordinate
GarbageFields == {<<"x">>, <<"1", ".", "5", "x">>}

\* the fields of one line for numCoords ascending columns
GoodFieldLists(length, numCoords) ==
  LET fields == GoodFields(length)
  IN {[i \in 1..numCoords |-> fields[r[i]]] :
        r \in {q \in [1..numCoords -> 1..Len(fields)] :
                 \A i \in 1..(numCoords - 1) : q[i] <= q[i + 1]}}

\* the fields of a line of a translator that malfunctions
BadFieldLists(numCoords) ==
  {[i \in 1..(numCoords - 1) |-> Str(1)],
   [i \in 1..(numCoords + 1) |-> Str(1)]}
  \cup {[i \in 1..numCoords |-> IF i = 1 THEN g ELSE Str(2)] :
          g \in GarbageFields}

\* the lines the translator can print for one sequence
LinesFor(name, length, numCoords) ==
  {[name |-> name, fields |-> f] :
     f \in GoodFieldLists(length, numCoords) \cup BadFieldLists(numCoords)}

\* the line of the external reference
ExternalRefLine(numCoords) ==
  [name |-> ExternalRefName,
   fields |-> [i \in 1..numCoords |-> IF i = 1 THEN BeforeStartField
                                      ELSE NaNField]]

\* the command lines: one bam file and no other reference, or references
\* aligned pairwise to the external reference, or all aligned together
CoordInputs ==
  {[mode |-> "single", NumberOfBams |-> 1, ExternalRefNames |-> {},
    lengths |-> l, windows |-> w,
    exact_window_start |-> xs, exact_window_end |-> xe] :
     l \in [1..1 -> 2..MaxRefLength],
     w \in UNION {ValidWindowCoords(n) : n \in 1..MaxCoordWindows},
     xs \in BOOLEAN, xe \in BOOLEAN}
  \cup
  {[mode |-> m, NumberOfBams |-> 2, ExternalRefNames |-> {ExternalRefName},
    lengths |-> l, windows |-> w,
    exact_window_start |-> xs, exact_window_end |-> xe] :
     m \in {"pairwise", "global"},
     l \in [1..2 -> 2..MaxRefLength],
     w \in ValidWindowCoords(1),
     xs \in BOOLEAN, xe \in BOOLEAN}

InitCoords ==
  /\ kpc = "coords"
  /\ coordArgs \in CoordInputs
  /\ WindowCoords = coordArgs.windows
  /\ NumCoords = Len(coordArgs.windows)
  /\ BamFileRefLengths = <<>>
  /\ CoordsString = <<>>
  /\ CoordsInRefs = EmptyDict
  /\ kbam = 1
  /\ kwindow = 0
  /\ LeftWindowEdge = None
  /\ RightWindowEdge = None
  /\ LeftWindowEdgeForFetch = None
  /\ RightWindowEdgeForFetch = None
  /\ LoopIdle
  /\ ContamIdle
  /\ FlowIdle
  /\ MergeIdle
  /\ WindowIdle
  /\ ParIdle
  /\ NamesIdle
  /\ RecombIdle
  /\ ConfigIdle
  /\ FinishIdle

CoordsFrame ==
  UNCHANGED <<coordArgs, WindowCoords, NumCoords, LeftWindowEdge,
              RightWindowEdge, LeftWindowEdgeForFetch,
              RightWindowEdgeForFetch, kwindow, beyondCoords>>

\* lines 809-841 with --windows: the user's coordinates as they are
SingleBamCoords ==
  /\ kpc = "coords"
  /\ coordArgs.mode = "single"
  /\ CoordsInRefs' =
       SetKey(EmptyDict, BamAliases[1],
              [i \in 1..NumCoords |-> IntCoord(WindowCoords[i])])
  /\ kpc' = "bams"
  /\ UNCHANGED <<CoordsString, BamFileRefLengths, kbam>>
  /\ CoordsFrame

\* lines 878-879 and 971: the names in the translator's output are the
\* expected ones
NamesIncludeExpected(CoordsDict, expected) ==
  expected \subseteq DOMAIN CoordsDict

NamesAsExpected(CoordsDict, expected) == DOMAIN CoordsDict = expected

\* lines 859-885 for one bam file: its reference is aligned to the chosen
\* one and the coordinates are translated
PairwiseTranslate ==
  /\ kpc = "coords"
  /\ coordArgs.mode = "pairwise"
  /\ \E out \in
          {<<l>> : l \in LinesFor(BamAliases[kbam], coordArgs.lengths[kbam],
                                  NumCoords)}
          \cup {<<ExternalRefLine(NumCoords), l>> :
                  l \in LinesFor(BamAliases[kbam], coordArgs.lengths[kbam],
                                 NumCoords)}
          \cup {<<ExternalRefLine(NumCoords), l,
                  [l EXCEPT !.name = UnknownName]>> :
                  l \in LinesFor(BamAliases[kbam], coordArgs.lengths[kbam],
                                 NumCoords)} :
       LET PairwiseCoordsDict == TranslateCoords(out, Len(out), NumCoords)
       IN /\ CoordsString' = Append(CoordsString, out)
          /\ IF PairwiseCoordsDict.end # "none"
             THEN /\ kpc' = PairwiseCoordsDict.end
                  /\ UNCHANGED <<CoordsInRefs, kbam>>
             ELSE IF ~NamesAsExpected(PairwiseCoordsDict.CoordsDict,
                                      {BamAliases[kbam], ExternalRefName})
             THEN /\ kpc' = "exit"
                  /\ UNCHANGED <<CoordsInRefs, kbam>>
             ELSE /\ CoordsInRefs' =
                       SetKey(CoordsInRefs, BamAliases[kbam],
                              PairwiseCoordsDict.CoordsDict[BamAliases[kbam]])
                  /\ kbam' = IF kbam = coordArgs.NumberOfBams THEN 1
                             ELSE kbam + 1
                  /\ kpc' = IF kbam = coordArgs.NumberOfBams THEN "bams"
                            ELSE "coords"
  /\ UNCHANGED BamFileRefLengths
  /\ CoordsFrame

\* what the translator can print for the alignment of all references
GlobalOutputs ==
  LET l1 == LinesFor(BamAliases[1], coordArgs.lengths[1], NumCoords)
      l2 == LinesFor(BamAliases[2], coordArgs.lengths[2], NumCoords)
      ref == ExternalRefLine(NumCoords)
  IN {<<a, b, ref>> : a \in l1, b \in l2}
     \cup {<<a, b>> : a \in l1, b \in l2}
     \cup {<<a, b, ref, [ref EXCEPT !.name = UnknownName]>> :
             a \in l1, b \in l2}
     \cup {<<>>}

\* lines 965-975: the coordinates are translated in the alignment of all
\* references
GlobalTranslate ==
  /\ kpc = "coords"
  /\ coordArgs.mode = "global"
  /\ \E out \in GlobalOutputs :
       LET translated == TranslateCoords(out, Len(out), NumCoords)
       IN /\ CoordsString' = Append(CoordsString, out)
          /\ IF translated.end # "none"
             THEN /\ kpc' = translated.end
                  /\ UNCHANGED CoordsInRefs
             ELSE IF ~NamesAsExpected(
                        translated.CoordsDict,
                        {BamAliases[b] : b \in 1..coordArgs.NumberOfBams}
                        \cup coordArgs.ExternalRefNames)
             THEN /\ kpc' = "exit"
                  /\ UNCHANGED CoordsInRefs
             ELSE /\ CoordsInRefs' = translated.CoordsDict
                  /\ kpc' = "bams"
  /\ UNCHANGED <<BamFileRefLengths, kbam>>
  /\ CoordsFrame

\* lines 1026-1030: what replaces a coordinate of a bam file
SentinelReplacedNaNKept(coord, RefLength) ==
  IF ~coord.NaN /\ coord.int = 0 - 1 THEN IntCoord(1)
  ELSE coord

SentinelReplaced(coord, RefLength) ==
  IF ~coord.NaN /\ coord.int = 0 - 1 THEN IntCoord(1)
  ELSE IF coord.NaN THEN IntCoord(RefLength)
  ELSE coord

\* lines 990-1030 for one bam file: the length of its reference is read
\* from its header and the sentinels among its coordinates are replaced
GatherBamData ==
  /\ kpc = "bams"
  /\ LET BamAlias == BamAliases[kbam]
         RefLength == coordArgs.lengths[kbam]
     IN /\ BamFileRefLengths' = Append(BamFileRefLengths, RefLength)
        /\ CoordsInRefs' =
             [CoordsInRefs EXCEPT
                ![BamAlias] =
                   [j \in DOMAIN @ |-> SentinelReplaced(@[j], RefLength)]]
  /\ kbam' = IF kbam = coordArgs.NumberOfBams THEN 1 ELSE kbam + 1
  /\ kpc' = IF kbam = coordArgs.NumberOfBams THEN "windows" ELSE "bams"
  /\ UNCHANGED CoordsString
  /\ CoordsFrame

\* lines 1257-1267: the edges for slicing and for fetching, 0-based
EdgesSwapped(Left, Right, start, end) ==
  LET L == Left - 1
      R == Right - 1
  IN IF start
     THEN IF ~end
          THEN [Left |-> L, Right |-> L, LeftForFetch |-> L,
                RightForFetch |-> None]
          ELSE [Left |-> L, Right |-> R, LeftForFetch |-> L,
                RightForFetch |-> R]
     ELSE IF end
     THEN [Left |-> L, Right |-> L, LeftForFetch |-> None,
           RightForFetch |-> R]
     ELSE [Left |-> L, Right |-> R, LeftForFetch |-> L,
           RightForFetch |-> R]

Edges(Left, Right, start, end) ==
  LET L == Left - 1
      R == Right - 1
  IN IF start
     THEN IF ~end
          THEN [Left |-> L, Right |-> L, LeftForFetch |-> L,
                RightForFetch |-> None]
          ELSE [Left |-> L, Right |-> R, LeftForFetch |-> L,
                RightForFetch |-> R]
     ELSE IF end
     THEN [Left |-> R, Right |-> R, LeftForFetch |-> None,
           RightForFetch |-> R]
     ELSE [Left |-> L, Right |-> R, LeftForFetch |-> L,
           RightForFetch |-> R]

\* lines 1244-1267 for one window and one bam file; an edge that is still
\* the string 'NaN' makes the subtraction raise TypeError
WindowEdges ==
  /\ kpc = "windows"
  /\ LET ThisBamCoords == CoordsInRefs[BamAliases[kbam]]
         Left == ThisBamCoords[kwindow * 2 + 1]
         Right == ThisBamCoords[kwindow * 2 + 2]
         e == Edges(Left.int, Right.int, coordArgs.exact_window_start,
                    coordArgs.exact_window_end)
     IN IF Left.NaN \/ Right.NaN
        THEN /\ kpc' = "TypeError"
             /\ UNCHANGED <<LeftWindowEdge, RightWindowEdge,
                            LeftWindowEdgeForFetch, RightWindowEdgeForFetch,
                            kbam, kwindow>>
        ELSE /\ LeftWindowEdge' = e.Left
             /\ RightWindowEdge' = e.Right
             /\ LeftWindowEdgeForFetch' = e.LeftForFetch
             /\ RightWindowEdgeForFetch' = e.RightForFetch
             /\ kpc' = "fetch"
             /\ UNCHANGED <<kbam, kwindow>>
  /\ UNCHANGED <<coordArgs, WindowCoords, NumCoords, BamFileRefLengths,
                 CoordsString, CoordsInRefs, beyondCoords>>

\* line 1275 onwards: the reads of this bam file are fetched, and the loops
\* go on to the next bam file or the next window
FetchedHere ==
  /\ kpc = "fetch"
  /\ LET last == kbam = coordArgs.NumberOfBams
     IN /\ kbam' = IF last THEN 1 ELSE kbam + 1
        /\ kwindow' = IF last THEN kwindow + 1 ELSE kwindow
        /\ kpc' = IF last /\ kwindow + 1 = NumCoords \div 2 THEN "done"
                  ELSE "windows"
  /\ UNCHANGED <<coordArgs, WindowCoords, NumCoords, BamFileRefLengths,
                 CoordsString, CoordsInRefs, LeftWindowEdge, RightWindowEdge,
                 LeftWindowEdgeForFetch, RightWindowEdgeForFetch,
                 beyondCoords>>

NextCoords ==
  \/ SingleBamCoords
  \/ PairwiseTranslate
  \/ GlobalTranslate
  \/ GatherBamData
  \/ WindowEdges
  \/ FetchedHere

SpecCoords == InitCoords /\ [][NextCoords]_vars

\* the 1-based coordinates of the window being read in the reference of the
\* bam file being read
LocalCoords ==
  LET ThisBamCoords == CoordsInRefs[BamAliases[kbam]]
  IN <<ThisBamCoords[kwindow * 2 + 1], ThisBamCoords[kwindow * 2 + 2]>>

\* the coordinate is a position of a reference of the given length
InReference(coord, RefLength) ==
  /\ ~coord.NaN
  /\ 1 <= coord.int
  /\ coord.int <= RefLength

\* C15: for every sample and every window, the local left and right
\* coordinates used for the extraction lie between 1 and the length of the
\* sample's mapping reference, also for a single sample with no other
\* reference, whose coordinates are the user's
C15_LocalCoordsInReference ==
  kpc = "fetch" =>
    \A i \in 1..2 : InReference(LocalCoords[i], BamFileRefLengths[kbam])

\* the part of C15 that the code satisfies: coordinates that were translated
\* lie in the reference
TranslatedCoordsInReference ==
  (kpc = "fetch" /\ coordArgs.mode # "single") =>
    \A i \in 1..2 : InReference(LocalCoords[i], BamFileRefLengths[kbam])

\* the window loop has started
WindowLoopStarted == kpc \in {"windows", "fetch", "done", "TypeError"}

\* the fields the translator printed for bam file b: with pairwise
\* alignment in its b-th call, else in its only call
TranslatorFields(b) ==
  LET out == IF coordArgs.mode = "pairwise" THEN CoordsString[b]
             ELSE CoordsString[1]
      n == CHOOSE k \in 1..Len(out) : out[k].name = BamAliases[b]
  IN out[n].fields

\* where a field stands among those of a sequence of the given length
FieldColumn(field, length) ==
  CHOOSE r \in 1..Len(GoodFields(length)) : GoodFields(length)[r] = field

\* the base that a field of the translator stands for: the first for a
\* column before the sequence, the last for a column after it, the base to
\* the left for a column inside a deletion
BaseOfField(field, length) ==
  LET r == FieldColumn(field, length)
  IN IF r = 1 THEN 1
     ELSE IF r = Len(GoodFields(length)) THEN length
     ELSE r \div 2

\* C16: when the window loop starts no coordinate of a sample is -1 or
\* 'NaN': each -1 has become 1, each 'NaN' the length of the sample's
\* reference, each k+0.5 the integer k, and the other coordinates are as
\* translated
C16_SentinelsResolved ==
  WindowLoopStarted =>
    /\ kpc # "TypeError"
    /\ \A b \in 1..coordArgs.NumberOfBams :
         LET coords == CoordsInRefs[BamAliases[b]]
         IN /\ \A j \in 1..NumCoords :
                 ~coords[j].NaN /\ coords[j].int # 0 - 1
            /\ coordArgs.mode # "single" =>
                 \A j \in 1..NumCoords :
                   coords[j].int =
                     BaseOfField(TranslatorFields(b)[j], coordArgs.lengths[b])

\* the loop starts after a translation that gave a sample a column before
\* its reference and one after it, and another sample a column inside a
\* deletion
C16_Witness ==
  /\ kpc = "windows"
  /\ coordArgs.mode = "global"
  /\ TranslatorFields(1) = <<BeforeStartField, NaNField>>
  /\ TranslatorFields(2)[1] = Str(1) \o <<".", "5">>
  /\ CoordsInRefs[BamAliases[1]] =
       <<IntCoord(1), IntCoord(coordArgs.lengths[1])>>
  /\ CoordsInRefs[BamAliases[2]][1] = IntCoord(1)

\* the names the c-th call of the translator is expected to print: the
\* sample and the chosen reference with pairwise alignment, else all the
\* samples and the external references
ExpectedNames(c) ==
  IF coordArgs.mode = "pairwise" THEN {BamAliases[c], ExternalRefName}
  ELSE {BamAliases[b] : b \in 1..coordArgs.NumberOfBams}
       \cup coordArgs.ExternalRefNames

\* the names the c-th call of the translator printed
PrintedNames(c) == {CoordsString[c][k].name : k \in 1..Len(CoordsString[c])}

\* some line of the c-th call has not one coordinate per window coordinate
WrongNumberOfCoords(c) ==
  \E k \in 1..Len(CoordsString[c]) :
    Len(CoordsString[c][k].fields) # Len(WindowCoords)

\* the run has stopped in the translation, before any window
AbortedBeforeWindows ==
  /\ kpc \in {"exit", "ValueError"}
  /\ kwindow = 0
  /\ LeftWindowEdge = None
  /\ RightWindowEdge = None
  /\ LeftWindowEdgeForFetch = None
  /\ RightWindowEdgeForFetch = None

\* C17: the run aborts before any window is processed if the translation
\* returns for some sequence a number of coordinates other than the number
\* of window coordinates, or if the set of names returned is not the set
\* expected
C17_AbortsOnBadTranslation ==
  \A c \in 1..Len(CoordsString) :
    (WrongNumberOfCoords(c) \/ PrintedNames(c) # ExpectedNames(c))
      => AbortedBeforeWindows

\* the translator left out the external reference, every line it printed
\* being well formed, and the run has stopped
C17_Witness ==
  /\ coordArgs.mode = "global"
  /\ Len(CoordsString) = 1
  /\ PrintedNames(1) = {BamAliases[1], BamAliases[2]}
  /\ ~WrongNumberOfCoords(1)
  /\ \A k \in 1..2 :
       CoordsString[1][k].fields = <<Str(1), Str(2)>>
  /\ AbortedBeforeWindows

\* C20: for 1-based local edges (L, R), with neither or both of the
\* exact-edge options the reads are fetched over [L-1, R-1] and sliced with
\* the edges (L-1, R-1); with only exact-window-start the fetch has no right
\* bound and both slicing edges are L-1; with only exact-window-end the
\* fetch has no left bound and both slicing edges are R-1
C20_FetchAndSliceEdges ==
  kpc = "fetch" =>
    LET L == LocalCoords[1].int
        R == LocalCoords[2].int
        start == coordArgs.exact_window_start
        end == coordArgs.exact_window_end
    IN /\ (start <=> end) =>
            /\ LeftWindowEdgeForFetch = L - 1
            /\ RightWindowEdgeForFetch = R - 1
            /\ LeftWindowEdge = L - 1
            /\ RightWindowEdge = R - 1
       /\ (start /\ ~end) =>
            /\ LeftWindowEdgeForFetch = L - 1
            /\ RightWindowEdgeForFetch = None
            /\ LeftWindowEdge = L - 1
            /\ RightWindowEdge = L - 1
       /\ (end /\ ~start) =>
            /\ LeftWindowEdgeForFetch = None
            /\ RightWindowEdgeForFetch = R - 1
            /\ LeftWindowEdge = R - 1
            /\ RightWindowEdge = R - 1

\* the second sample's reads are fetched for a window of which only the end
\* is exact, and whose edges differ
C20_Witness ==
  /\ kpc = "fetch"
  /\ kbam = 2
  /\ coordArgs.exact_window_end
  /\ ~coordArgs.exact_window_start
  /\ LocalCoords[1].int < LocalCoords[2].int
  /\ LeftWindowEdgeForFetch = None
  /\ LeftWindowEdge = LocalCoords[2].int - 1

(***************************************************************************)
(* SpecNames: the names given to the reads of a sample and what is read    *)
(* back in them. A name is a sequence whose elements are '_read_',         *)
(* '_count_' and single characters.                                        *)
(***************************************************************************)
\* the aliases of the run: plain, holding the text of a read's name, ending
\* where a count would come, and nothing but the text of a read's name
NameAliases ==
  {<<"S", "1">>,
   <<"S", "1", "_read_", "2", "_count_", "3">>,
   <<"S", "_read_", "1", "_count_">>,
   <<"_read_", "1", "_count_", "2">>}

\* the dicts of a sample at line 1055
NameDicts ==
  UNION {[S -> 1..MaxNameCount] : S \in SUBSET MergeSeqs}

InitNames ==
  /\ npc = "dict"
  /\ nAlias \in NameAliases
  /\ nDict \in NameDicts
  /\ nNamed = <<>>
  /\ nParsed = <<>>
  /\ nProbe = None
  /\ LoopIdle
  /\ ContamIdle
  /\ FlowIdle
  /\ MergeIdle
  /\ WindowIdle
  /\ ParIdle
  /\ CoordsIdle
  /\ RecombIdle
  /\ ConfigIdle
  /\ FinishIdle

\* lines 1074-1083 for one name: whether it is taken for a read of a sample
\* of the run, and then the sample's name and the value
ParsedName(id, aliases) ==
  LET start == SampleRegexStart(id)
      SampleName == SubSeq(id, 1, start - 1)
  IN IF start > 0 /\ SampleName \in aliases
     THEN [read |-> TRUE, SampleName |-> SampleName,
           value |-> CountFromName(id)]
     ELSE [read |-> FALSE, SampleName |-> <<>>, value |-> 0]

\* lines 1055-1061: the reads are sorted by count and named
NameReads ==
  /\ npc = "dict"
  /\ \E order \in SortedByCount(nDict) :
       nNamed' = NamedReads(nDict, nAlias, order)
  /\ npc' = "named"
  /\ UNCHANGED <<nAlias, nDict, nParsed, nProbe, beyondNames>>

\* lines 1073-1083 for each of the names
ReadNames ==
  /\ npc = "named"
  /\ nParsed' = [k \in 1..Len(nNamed) |->
                   ParsedName(nNamed[k].id, NameAliases)]
  /\ npc' = "parsed"
  /\ UNCHANGED <<nAlias, nDict, nNamed, nProbe, beyondNames>>

\* lines 1058 and 1074-1083 for a name made of any rank and any count
ParseProbe ==
  /\ npc = "dict"
  /\ \E rank \in 1..MaxRank, count \in 1..MaxRank :
       nProbe' = [rank |-> rank, count |-> count,
                  parsed |-> ParsedName(SeqName(nAlias, rank, count),
                                        NameAliases)]
  /\ npc' = "probed"
  /\ UNCHANGED <<nAlias, nDict, nNamed, nParsed, beyondNames>>

NextNames ==
  \/ NameReads
  \/ ReadNames
  \/ ParseProbe

SpecNames == InitNames /\ [][NextNames]_vars

\* C18: the name made of an alias of the run, a rank and a count is read
\* back as that alias and that count, also when the alias holds text of the
\* form _read_N_count_M; the names of one sample in a window are pairwise
\* distinct, carry the ranks 1..n and counts that do not increase with the
\* rank
C18_NamesReadBack ==
  /\ npc = "probed" =>
       nProbe.parsed = [read |-> TRUE, SampleName |-> nAlias,
                        value |-> nProbe.count]
  /\ npc = "parsed" =>
       /\ Len(nNamed) = Cardinality(DOMAIN nDict)
       /\ \A k \in 1..Len(nNamed) :
            /\ nParsed[k] = [read |-> TRUE, SampleName |-> nAlias,
                             value |-> nDict[nNamed[k].seq]]
            /\ nNamed[k].id =
                 nAlias \o <<"_read_">> \o Str(k) \o <<"_count_">>
                 \o Str(nParsed[k].value)
       /\ \A k, l \in 1..Len(nNamed) :
            k < l => /\ nNamed[k].id # nNamed[l].id
                     /\ nNamed[k].seq # nNamed[l].seq
                     /\ nParsed[k].value >= nParsed[l].value

\* a name of two-digit rank and count, for the alias that holds the text of
\* a name, has been read back
C18_Witness ==
  /\ npc = "probed"
  /\ nAlias = <<"S", "1", "_read_", "2", "_count_", "3">>
  /\ nProbe.rank = 10
  /\ nProbe.count = 11
  /\ nProbe.parsed.SampleName = nAlias
  /\ nProbe.parsed.value = 11

(***************************************************************************)
(* SpecRecomb: the recombination report of a window. What                  *)
(* pf.CalculateRecombinationMetric returns is not in the source at hand: a *)
(* metric and the names of two parents and a recombinant; for fewer than   *)
(* three sequences it has no triple to return.                             *)
(***************************************************************************)
\* the sequence of rank k of a sample in the final alignment
AlnSeq(k) == [i \in 1..MaxAlnSeqs |-> IF i = k THEN "C" ELSE "A"]

\* the rows of a sample that has n sequences in the final alignment
AlnRows(alias, n) ==
  [k \in 1..n |-> [id |-> SeqName(alias, k, 1), seq |-> AlnSeq(k)]]

\* the row of the external reference
ExternalRefRow ==
  [id |-> ExternalRefName, seq |-> [i \in 1..MaxAlnSeqs |-> "G"]]

InitRecomb ==
  /\ rpc = "positions"
  /\ \E n1, n2 \in 0..MaxAlnSeqs :
       FinalAlignment =
         AlnRows(BamAliases[1], n1) \o <<ExternalRefRow>>
         \o AlnRows(BamAliases[2], n2)
  /\ SamplesToAlnPosDict = EmptyDict
  /\ aliasOrder = <<>>
  /\ RecombinationResults = <<>>
  /\ RecombinantRows = <<>>
  /\ LoopIdle
  /\ ContamIdle
  /\ FlowIdle
  /\ MergeIdle
  /\ WindowIdle
  /\ ParIdle
  /\ CoordsIdle
  /\ NamesIdle
  /\ ConfigIdle
  /\ FinishIdle

\* lines 1800-1806 for the first n rows of the alignment
RECURSIVE AlnPositions(_, _)
AlnPositions(alignment, n) ==
  IF n = 0 THEN EmptyDict
  ELSE LET sofar == AlnPositions(alignment, n - 1)
           parsed == ParsedName(alignment[n].id,
                                {BamAliases[b] : b \in Samples})
       IN IF parsed.read
          THEN IF parsed.SampleName \in DOMAIN sofar
               THEN [sofar EXCEPT ![parsed.SampleName] = Append(@, n)]
               ELSE SetKey(sofar, parsed.SampleName, <<n>>)
          ELSE sofar

\* lines 1799-1807
FindPositions ==
  /\ rpc = "positions"
  /\ SamplesToAlnPosDict' = AlnPositions(FinalAlignment, Len(FinalAlignment))
  /\ rpc' = "score"
  /\ UNCHANGED <<FinalAlignment, aliasOrder, RecombinationResults,
                 RecombinantRows, beyondRecomb>>

\* what pf.CalculateRecombinationMetric can return for the rows of one
\* sample: a metric and three of the rows; with fewer than three rows no
\* triple, under a metric that is None or 0, or an exception
CalculateRecombinationMetric(ThisAliasAln) ==
  IF Len(ThisAliasAln) < 3
  THEN {[raised |-> r, none |-> n, metric |-> 0,
         ids |-> <<None, None, None>>] :
          r \in BOOLEAN, n \in BOOLEAN}
       \ {[raised |-> TRUE, none |-> FALSE, metric |-> 0,
           ids |-> <<None, None, None>>]}
  ELSE {[raised |-> FALSE, none |-> FALSE, metric |-> metric,
         ids |-> <<ThisAliasAln[t[1]].id, ThisAliasAln[t[2]].id,
                   ThisAliasAln[t[3]].id>>] :
          metric \in 0..MaxMetric,
          t \in {u \in [1..3 -> 1..Len(ThisAliasAln)] :
                   u[1] < u[2] /\ u[3] \notin {u[1], u[2]}}}

\* lines 1808-1814 for one alias, taken in the order of the dict
Score ==
  /\ rpc = "score"
  /\ \E alias \in DOMAIN SamplesToAlnPosDict \ Range(aliasOrder) :
       LET ListOfReadPosInAln == SamplesToAlnPosDict[alias]
           ThisAliasAln == [k \in 1..Len(ListOfReadPosInAln) |->
                              FinalAlignment[ListOfReadPosInAln[k]]]
       IN \E result \in CalculateRecombinationMetric(ThisAliasAln) :
            /\ aliasOrder' = Append(aliasOrder, alias)
            /\ IF result.raised
               THEN /\ rpc' = "raised"
                    /\ UNCHANGED RecombinationResults
               ELSE /\ rpc' = "score"
                    /\ RecombinationResults' =
                         Append(RecombinationResults,
                                [alias |-> alias, none |-> result.none,
                                 metric |-> result.metric,
                                 ids |-> result.ids])
  /\ UNCHANGED <<FinalAlignment, SamplesToAlnPosDict, RecombinantRows,
                 beyondRecomb>>

\* key=lambda x: x[1]: None sorts below every number
MetricKey(result) == IF result.none THEN 0 - 1 ELSE result.metric

\* lines 1819-1820: sorted(results, key=lambda x: x[1], reverse=True), which
\* keeps results of equal metric in the order in which they came
SortedByMetric(results) ==
  LET place(i) ==
        1 + Cardinality({j \in 1..Len(results) :
                           \/ MetricKey(results[j]) > MetricKey(results[i])
                           \/ /\ MetricKey(results[j]) = MetricKey(results[i])
                              /\ j < i})
  IN [p \in 1..Len(results) |->
        results[CHOOSE i \in 1..Len(results) : place(i) = p]]

\* lines 1815-1821: the report is written
WriteReport ==
  /\ rpc = "score"
  /\ DOMAIN SamplesToAlnPosDict \subseteq Range(aliasOrder)
  /\ RecombinantRows' = SortedByMetric(RecombinationResults)
  /\ rpc' = "written"
  /\ UNCHANGED <<FinalAlignment, SamplesToAlnPosDict, aliasOrder,
                 RecombinationResults, beyondRecomb>>

NextRecomb ==
  \/ FindPositions
  \/ Score
  \/ WriteReport

SpecRecomb == InitRecomb /\ [][NextRecomb]_vars

\* the sequences a sample has in the final alignment
SeqsInAlignment(b) ==
  {FinalAlignment[k].seq :
     k \in {i \in 1..Len(FinalAlignment) :
              /\ Len(FinalAlignment[i].id) > Len(BamAliases[b])
              /\ SubSeq(FinalAlignment[i].id, 1, Len(BamAliases[b]))
                   = BamAliases[b]}}

\* the rows of the report that are about a sample
RowsAbout(b) ==
  {k \in 1..Len(RecombinantRows) : RecombinantRows[k].alias = BamAliases[b]}

\* C19: in the recombination report of a window a sample with fewer than 3
\* distinct sequences in the final alignment has no row, a sample with 3 or
\* more has exactly one, and the rows are in non-increasing order of metric
C19_RowsOfRecombinationReport ==
  rpc = "written" =>
    /\ \A b \in Samples :
         IF Cardinality(SeqsInAlignment(b)) < 3
         THEN RowsAbout(b) = {}
         ELSE Cardinality(RowsAbout(b)) = 1
    /\ \A k \in 1..(Len(RecombinantRows) - 1) :
         MetricKey(RecombinantRows[k]) >= MetricKey(RecombinantRows[k + 1])

\* what the code does: when no call raised, one row for each sample that has
\* a sequence in the final alignment, in non-increasing order of metric
OneRowPerSampleInAlignment ==
  rpc = "written" =>
    /\ \A b \in Samples :
         IF SeqsInAlignment(b) = {}
         THEN RowsAbout(b) = {}
         ELSE Cardinality(RowsAbout(b)) = 1
    /\ \A k \in 1..(Len(RecombinantRows) - 1) :
         MetricKey(RecombinantRows[k]) >= MetricKey(RecombinantRows[k + 1])

(***************************************************************************)
(* SpecConfig: the checks of the options (lines 405-606) and the windows   *)
(* made from them when there is one bam file and no other reference        *)
(* (lines 811-840), up to the first pass of the window loop (line 1189).   *)
(* The options that are not in configArgs are taken as not given, so that  *)
(* their checks (lines 419-457, 483-509) pass.                             *)
(***************************************************************************)
\* line 375-386: the shorthands of the options
UserSpecifiedCoords(args) == args.windows # None
AutoWindows(args) == args.auto_window_params # None
ExploreWindowWidths(args) == args.explore_window_widths # None
FlagContaminantsOf(args) == args.contaminant_count_ratio # None

\* line 405: how many of the three window options are given
NumWindowOptions(args) ==
  Cardinality({o \in {"W", "AW", "E"} :
                 \/ o = "W" /\ UserSpecifiedCoords(args)
                 \/ o = "AW" /\ AutoWindows(args)
                 \/ o = "E" /\ ExploreWindowWidths(args)})

\* a check of left edges that lets a window of one position through
SanityCheckWindowCoordsLeftEqual(coords) ==
  /\ Len(coords) % 2 = 0
  /\ \A i \in 1..Len(coords) : coords[i] >= 1
  /\ \A k \in 1..(Len(coords) \div 2) : coords[2 * k - 1] <= coords[2 * k]
\* lines 524-541: TRUE when SanityCheckWindowCoords returns, FALSE when it
\* raises ValueError
SanityCheckWindowCoords(coords) ==
  /\ Len(coords) % 2 = 0
  /\ \A i \in 1..Len(coords) : coords[i] >= 1
  /\ \A k \in 1..(Len(coords) \div 2) : coords[2 * k - 1] < coords[2 * k]

\* line 565: float('inf'), above every position of the reference
Inf == MaxConfigRefLength + MaxWidth + MaxStart + 1
\* min of two numbers (line 817)
Min(a, b) == IF a <= b THEN a ELSE b

\* line 589
ExploreStart(args) == args.explore_window_widths[1]
\* the widths in the order in which they were given, unsorted
ExploreWidthsAsGiven(args) ==
  Tail(args.explore_window_widths)
\* lines 590 and 596
ExploreWidths(args) ==
  SortSeq(Tail(args.explore_window_widths), LAMBDA a, b : a < b)
\* line 597
MinExploreWidth(args) == ExploreWidths(args)[1]
\* line 603
MaxExploreWidth(args) == ExploreWidths(args)[Len(ExploreWidths(args))]

\* lines 621-632: the windows of one width, from the left edge start on
RECURSIVE WindowsOfWidth(_, _, _)
WindowsOfWidth(start, width, EndPoint) ==
  IF start + width - 1 <= EndPoint
    THEN <<start, start + width - 1>>
         \o WindowsOfWidth(start + width, width, EndPoint)
    ELSE <<>>
\* lines 620-633: the loop over the widths, from the i-th width on
RECURSIVE WindowsOfWidths(_, _, _)
WindowsOfWidths(args, i, EndPoint) ==
  IF i > Len(ExploreWidths(args))
    THEN <<>>
    ELSE WindowsOfWidth(ExploreStart(args), ExploreWidths(args)[i], EndPoint)
         \o WindowsOfWidths(args, i + 1, EndPoint)
\* lines 609-633, for an EndPoint that passes the check of line 613
FindExploratoryWindows(args, EndPoint) == WindowsOfWidths(args, 1, EndPoint)

\* the integers of --windows: lists of up to MaxWindowArgs coordinates
WindowLists ==
  UNION {[1..n -> 0..MaxWindowArg] : n \in 1..MaxWindowArgs}
\* the integers of --auto-window-params: a width, an overlap, a start, an end
AutoParamLists ==
  LET widths == 0..MaxWidth
      overlaps == (0 - 1)..MaxWidth
      starts == 0..MaxStart
      ends == 1..MaxConfigRefLength
  IN  {<<w>> : w \in widths}
      \cup {<<w, o>> : w \in widths, o \in overlaps}
      \cup {<<w, o, s>> : w \in widths, o \in overlaps, s \in starts}
      \cup {<<w, o, s, e>> :
              w \in widths, o \in overlaps, s \in starts, e \in ends}
      \cup {<<1, 0, 1, 1, 1>>}
\* the integers of --explore-window-widths: a start and up to two widths
ExploreLists ==
  LET starts == 0..MaxStart
      widths == 1..MaxWidth
  IN  {<<s>> : s \in starts}
      \cup {<<s, w>> : s \in starts, w \in widths}
      \cup {<<s, w1, w2>> : s \in starts, w1 \in widths, w2 \in widths}

\* the options of a run: a window option alone takes every value, and
\* several together one value each (only their number is looked at)
ConfigInputs ==
  LET given == SUBSET {"W", "AW", "E"}
      alone(g, o) == g = {o}
  IN  UNION {
        [windows :
           IF "W" \in g
             THEN IF alone(g, "W") THEN WindowLists ELSE {<<1, 2>>}
             ELSE {None},
         auto_window_params :
           IF "AW" \in g
             THEN IF alone(g, "AW") THEN AutoParamLists ELSE {<<2, 1>>}
             ELSE {None},
         explore_window_widths :
           IF "E" \in g
             THEN IF alone(g, "E") THEN ExploreLists ELSE {<<1, 2>>}
             ELSE {None},
         explore_window_width_file : IF "E" \in g THEN BOOLEAN ELSE {FALSE},
         contaminant_count_ratio : {None, <<1, 2>>, <<2, 1>>},
         dont_check_duplicates : BOOLEAN,
         excision_coords : BOOLEAN,
         excision_ref : BOOLEAN] : g \in given}

InitConfig ==
  /\ gpc = "options"
  /\ gend = "running"
  /\ configArgs \in ConfigInputs
  /\ RefSeqLength \in
       IF NumWindowOptions(configArgs) = 1 /\ ~UserSpecifiedCoords(configArgs)
         THEN 1..MaxConfigRefLength
         ELSE {MaxConfigRefLength}
  /\ assigned = {}
  /\ WindowStartPos = 0
  /\ WindowEndPos = 0
  /\ ConfigWindowCoords = configArgs.windows
  /\ NextStart = 0
  /\ NextEnd = 0
  /\ LoopIdle
  /\ ContamIdle
  /\ FlowIdle
  /\ MergeIdle
  /\ WindowIdle
  /\ ParIdle
  /\ CoordsIdle
  /\ NamesIdle
  /\ RecombIdle
  /\ FinishIdle

\* the script ends: exit(1), or an exception nothing catches
Stop(how) ==
  /\ gend' = how
  /\ gpc' = gpc
\* the script goes on
GoTo(stage) ==
  /\ gend' = gend
  /\ gpc' = stage
\* what the checks of the options leave alone
ConfigFrame ==
  <<configArgs, RefSeqLength, ConfigWindowCoords, NextStart, NextEnd,
    beyondConfig>>

\* lines 405-411
CheckWindowOptions ==
  /\ gpc = "options"
  /\ gend = "running"
  /\ IF NumWindowOptions(configArgs) # 1
       THEN Stop("exit")
       ELSE GoTo("contaminants")
  /\ UNCHANGED <<assigned, WindowStartPos, WindowEndPos, ConfigFrame>>

\* lines 460-473
CheckContaminantOptions ==
  /\ gpc = "contaminants"
  /\ gend = "running"
  /\ IF /\ FlagContaminantsOf(configArgs)
        /\ RatioBelowOne(configArgs.contaminant_count_ratio)
       THEN Stop("exit")
       ELSE IF /\ configArgs.dont_check_duplicates
               /\ FlagContaminantsOf(configArgs)
              THEN Stop("exit")
              ELSE GoTo("excision")
  /\ UNCHANGED <<assigned, WindowStartPos, WindowEndPos, ConfigFrame>>

\* lines 476-480
CheckExcisionOptions ==
  /\ gpc = "excision"
  /\ gend = "running"
  /\ IF configArgs.excision_coords # configArgs.excision_ref
       THEN Stop("exit")
       ELSE GoTo("coords")
  /\ UNCHANGED <<assigned, WindowStartPos, WindowEndPos, ConfigFrame>>

\* lines 543-545
CheckWindowCoords ==
  /\ gpc = "coords"
  /\ gend = "running"
  /\ IF /\ UserSpecifiedCoords(configArgs)
        /\ ~SanityCheckWindowCoords(configArgs.windows)
       THEN Stop("ValueError")
       ELSE GoTo("auto")
  /\ UNCHANGED <<assigned, WindowStartPos, WindowEndPos, ConfigFrame>>

\* lines 547-571
CheckAutoWindowParams ==
  /\ gpc = "auto"
  /\ gend = "running"
  /\ IF ~AutoWindows(configArgs)
       THEN /\ GoTo("explore")
            /\ UNCHANGED <<assigned, WindowStartPos, WindowEndPos>>
       ELSE LET params == configArgs.auto_window_params
                NumAutoWindowParams == Len(params)
            IN  IF NumAutoWindowParams \notin {2, 3, 4}
                  THEN /\ Stop("exit")
                       /\ UNCHANGED <<assigned, WindowStartPos, WindowEndPos>>
                  ELSE /\ WindowStartPos' = IF NumAutoWindowParams > 2
                                              THEN params[3]
                                              ELSE 1
                       /\ WindowEndPos' = IF NumAutoWindowParams = 4
                                            THEN params[4]
                                            ELSE IF NumAutoWindowParams = 3
                                                   THEN Inf
                                                   ELSE WindowEndPos
                       /\ assigned' = IF NumAutoWindowParams > 2
                                        THEN {"WindowStartPos", "WindowEndPos"}
                                        ELSE {"WindowStartPos"}
                       /\ IF NumAutoWindowParams > 2 /\ params[3] < 1
                            THEN Stop("exit")
                            ELSE IF params[1] <= 0
                                   THEN Stop("exit")
                                   ELSE GoTo("explore")
  /\ UNCHANGED ConfigFrame

\* lines 573-604; the file of --explore-window-width-file can be written
CheckExploreOptions ==
  /\ gpc = "explore"
  /\ gend = "running"
  /\ IF ~ExploreWindowWidths(configArgs)
       THEN GoTo("single")
       ELSE IF ~configArgs.explore_window_width_file
              THEN Stop("exit")
              ELSE IF Len(configArgs.explore_window_widths) < 2
                     THEN Stop("exit")
                     ELSE IF ExploreStart(configArgs) < 1
                            THEN Stop("exit")
                            ELSE IF MinExploreWidth(configArgs) < 2
                                   THEN Stop("exit")
                                   ELSE GoTo("single")
  /\ UNCHANGED <<assigned, WindowStartPos, WindowEndPos, ConfigFrame>>

\* lines 811-815 and 841 with --windows: the coordinates are used as they are
UserWindows ==
  /\ gpc = "single"
  /\ gend = "running"
  /\ UserSpecifiedCoords(configArgs)
  /\ GoTo("loop")
  /\ UNCHANGED <<assigned, WindowStartPos, WindowEndPos, ConfigFrame>>

\* lines 816-829: the end of the windows, the check that one window fits and
\* the first window
AutoWindowsStart ==
  /\ gpc = "single"
  /\ gend = "running"
  /\ AutoWindows(configArgs)
  /\ IF "WindowEndPos" \notin assigned
       THEN /\ Stop("NameError")
            /\ UNCHANGED <<WindowEndPos, ConfigWindowCoords, NextStart,
                           NextEnd>>
       ELSE LET WeightedWindowWidth == configArgs.auto_window_params[1]
                end == Min(WindowEndPos, RefSeqLength)
            IN  /\ WindowEndPos' = end
                /\ IF end < WindowStartPos + WeightedWindowWidth
                     THEN /\ Stop("exit")
                          /\ UNCHANGED <<ConfigWindowCoords, NextStart,
                                         NextEnd>>
                     ELSE /\ ConfigWindowCoords' = <<>>
                          /\ NextStart' = WindowStartPos
                          /\ NextEnd' = WindowStartPos + WeightedWindowWidth - 1
                          /\ GoTo("autoloop")
  /\ UNCHANGED <<configArgs, RefSeqLength, assigned, WindowStartPos,
                 beyondConfig>>

\* lines 830-833: one pass of the loop that makes the windows; the list holds
\* at most MaxAutoWindows windows
AutoWindowsStep ==
  /\ gpc = "autoloop"
  /\ gend = "running"
  /\ NextEnd <= WindowEndPos
  /\ Len(ConfigWindowCoords) < 2 * MaxAutoWindows
  /\ LET WeightedWindowWidth == configArgs.auto_window_params[1]
         WindowOverlap == configArgs.auto_window_params[2]
     IN  /\ ConfigWindowCoords' = ConfigWindowCoords \o <<NextStart, NextEnd>>
         /\ NextStart' = NextEnd - WindowOverlap + 1
         /\ NextEnd' = (NextEnd - WindowOverlap + 1) + WeightedWindowWidth - 1
  /\ UNCHANGED <<gpc, gend, configArgs, RefSeqLength, assigned,
                 WindowStartPos, WindowEndPos, beyondConfig>>

\* lines 830 and 834-835: the loop ends
AutoWindowsEnd ==
  /\ gpc = "autoloop"
  /\ gend = "running"
  /\ NextEnd > WindowEndPos
  /\ GoTo("loop")
  /\ UNCHANGED <<assigned, WindowStartPos, WindowEndPos, ConfigFrame>>

\* lines 836-840 and 613-633
ExploreWindows ==
  /\ gpc = "single"
  /\ gend = "running"
  /\ ExploreWindowWidths(configArgs)
  /\ LET MaxCoordForWindowWidthTesting == RefSeqLength
     IN  IF MaxCoordForWindowWidthTesting <
              ExploreStart(configArgs) + MaxExploreWidth(configArgs)
           THEN /\ Stop("exit")
                /\ UNCHANGED ConfigWindowCoords
           ELSE /\ ConfigWindowCoords' =
                     FindExploratoryWindows(configArgs,
                                            MaxCoordForWindowWidthTesting)
                /\ GoTo("loop")
  /\ UNCHANGED <<configArgs, RefSeqLength, assigned, WindowStartPos,
                 WindowEndPos, NextStart, NextEnd, beyondConfig>>

\* line 1189: the window loop starts on the first window, if there is one
FirstWindow ==
  /\ gpc = "loop"
  /\ gend = "running"
  /\ IF Len(ConfigWindowCoords) \div 2 > 0
       THEN GoTo("window")
       ELSE GoTo("end")
  /\ UNCHANGED <<assigned, WindowStartPos, WindowEndPos, ConfigFrame>>

NextConfig ==
  \/ CheckWindowOptions
  \/ CheckContaminantOptions
  \/ CheckExcisionOptions
  \/ CheckWindowCoords
  \/ CheckAutoWindowParams
  \/ CheckExploreOptions
  \/ UserWindows
  \/ AutoWindowsStart
  \/ AutoWindowsStep
  \/ AutoWindowsEnd
  \/ ExploreWindows
  \/ FirstWindow

SpecConfig == InitConfig /\ [][NextConfig]_vars

\* the configuration is invalid in one of these ways
InvalidConfiguration(args) ==
  \/ NumWindowOptions(args) # 1
  \/ /\ args.contaminant_count_ratio # None
     /\ args.contaminant_count_ratio[1] < args.contaminant_count_ratio[2]
  \/ args.dont_check_duplicates /\ args.contaminant_count_ratio # None
  \/ args.excision_coords # args.excision_ref
  \/ /\ args.windows # None
     /\ \/ Len(args.windows) % 2 = 1
        \/ \E i \in 1..Len(args.windows) : args.windows[i] < 1
        \/ \E k \in 1..(Len(args.windows) \div 2) :
             args.windows[2 * k - 1] >= args.windows[2 * k]

\* the stages of the checks of lines 405-545
OptionChecks == {"options", "contaminants", "excision", "coords"}

\* C22: a run whose configuration is invalid (not exactly one window option,
\* a contaminant ratio below 1, --dont-check-duplicates with the flagging of
\* contaminants, one of the excision coordinates and the excision reference
\* without the other, an odd number of window coordinates, a coordinate below
\* 1, a left edge not less than its right edge) never leaves the checks of
\* the options: it does not reach the window loop, and once the check of
\* the window coordinates has been made it has ended with an error.
C22_InvalidConfigurationStops ==
  InvalidConfiguration(configArgs) =>
    /\ gpc \in OptionChecks
    /\ gend \in {"running", "exit", "ValueError"}
    /\ gpc = "coords" /\ gend = "running" =>
         /\ UserSpecifiedCoords(configArgs)
         /\ ~SanityCheckWindowCoords(configArgs.windows)
\* a run with --windows 2,2, every other option valid, has ended with a
\* ValueError at the check of the window coordinates
C22_Witness ==
  /\ configArgs.windows = <<2, 2>>
  /\ gpc = "coords"
  /\ gend = "ValueError"

\* the generation of the windows has been reached with the one option
AtWindows == gpc \in {"single", "autoloop", "loop", "window"}
\* the windows have been made
WindowsMade == gpc \in {"loop", "window"}

\* the widths of --explore-window-widths in increasing order
IncreasingWidths(args) ==
  LET given == Tail(args.explore_window_widths)
      n == Len(given)
  IN  CHOOSE ws \in [1..n -> Range(given)] :
        /\ \A i \in 1..(n - 1) : ws[i] <= ws[i + 1]
        /\ \A w \in Range(given) :
             Cardinality({i \in 1..n : ws[i] = w}) =
               Cardinality({i \in 1..n : given[i] = w})
\* the number of windows of width w that end at E or before, from s on
FittingWindows(s, w, E) == IF E - s + 1 < w THEN 0 ELSE (E - s + 1) \div w
\* the windows [s + k*w, s + (k+1)*w - 1], k = 0, 1, ..., that end at E or
\* before, as a list of coordinates
WindowRun(s, w, E) ==
  [j \in 1..(2 * FittingWindows(s, w, E)) |->
     IF j % 2 = 1 THEN s + ((j - 1) \div 2) * w ELSE s + (j \div 2) * w - 1]
\* the runs of every width, in increasing order of width
ExpectedExploratoryWindows(args, E) ==
  LET ws == IncreasingWidths(args)
  IN  Concat([i \in 1..Len(ws) |-> WindowRun(args.explore_window_widths[1],
                                              ws[i], E)],
             [i \in 1..Len(ws) |-> i], Len(ws))
\* a start >= 1, widths >= 2 and an end point >= the start + the largest width
ExploreAccepted(args, E) ==
  /\ ExploreWindowWidths(args)
  /\ Len(args.explore_window_widths) >= 2
  /\ args.explore_window_widths[1] >= 1
  /\ \A i \in 2..Len(args.explore_window_widths) :
       /\ args.explore_window_widths[i] >= 2
       /\ E >= args.explore_window_widths[1] + args.explore_window_widths[i]

\* C24: for an accepted start s >= 1, widths >= 2 and end point E >= s + the
\* largest width, FindExploratoryWindows does not quit and returns, for each
\* width w in increasing order, exactly the windows [s + k*w, s + (k+1)*w - 1]
\* whose right edge is <= E, and at least one for each width.
C24_ExploratoryWindows ==
  AtWindows /\ ExploreAccepted(configArgs, RefSeqLength) =>
    /\ gend = "running"
    /\ WindowsMade =>
         /\ ConfigWindowCoords =
              ExpectedExploratoryWindows(configArgs, RefSeqLength)
         /\ \A i \in 2..Len(configArgs.explore_window_widths) :
              FittingWindows(configArgs.explore_window_widths[1],
                             configArgs.explore_window_widths[i],
                             RefSeqLength) >= 1
\* the widths 3 and 2 from 1 on, in a reference of 5 positions: the windows
\* 1-2 and 3-4, then 1-3
C24_Witness ==
  /\ gpc = "loop"
  /\ configArgs.explore_window_widths = <<1, 3, 2>>
  /\ RefSeqLength = 5
  /\ ConfigWindowCoords = <<1, 2, 3, 4, 1, 3>>

\* the width, the overlap, the start (1 when omitted) and the end (the end
\* of the reference when omitted, and never beyond it) of the automatic
\* windows, as the help of --auto-window-params describes them
DocumentedWidth(args) == args.auto_window_params[1]
DocumentedOverlap(args) == args.auto_window_params[2]
DocumentedStart(args) ==
  IF Len(args.auto_window_params) >= 3 THEN args.auto_window_params[3] ELSE 1
DocumentedEnd(args, length) ==
  IF Len(args.auto_window_params) = 4
    THEN Min(args.auto_window_params[4], length)
    ELSE length
\* 2, 3 or 4 integers that pass the checks of lines 547-571
AutoAccepted(args) ==
  /\ AutoWindows(args)
  /\ Len(args.auto_window_params) \in {2, 3, 4}
  /\ DocumentedWidth(args) > 0
  /\ DocumentedStart(args) >= 1
\* the number of windows [s + k*(w - o), s + k*(w - o) + w - 1], k = 0, 1,
\* ..., whose right edge is <= E, for w > o
DocumentedCount(s, w, o, E) ==
  IF s + w - 1 > E THEN 0 ELSE (E - (s + w - 1)) \div (w - o) + 1
\* those windows as a list of coordinates
DocumentedAutoWindows(args, length) ==
  LET s == DocumentedStart(args)
      w == DocumentedWidth(args)
      o == DocumentedOverlap(args)
      E == DocumentedEnd(args, length)
  IN  [j \in 1..(2 * DocumentedCount(s, w, o, E)) |->
         IF j % 2 = 1
           THEN s + ((j - 1) \div 2) * (w - o)
           ELSE s + ((j \div 2) - 1) * (w - o) + w - 1]

\* C25: with one bam file, no other reference and automatic windows of width
\* w, overlap o < w, start s (1 when omitted) and end e (the end of the
\* reference when omitted), the windows made are exactly
\* [s + k*(w - o), s + k*(w - o) + w - 1], k = 0, 1, ..., with right edge
\* <= min(e, reference length): the run stops short of the window loop only
\* when there is no such window.
C25_AutoWindowsAsDocumented ==
  /\ AtWindows
  /\ AutoAccepted(configArgs)
  /\ DocumentedOverlap(configArgs) < DocumentedWidth(configArgs)
  => /\ WindowsMade =>
          ConfigWindowCoords = DocumentedAutoWindows(configArgs, RefSeqLength)
     /\ gend # "running" =>
          DocumentedAutoWindows(configArgs, RefSeqLength) = <<>>

\* what does hold of the automatic windows: with a start given (3 or 4
\* integers) and room for more than the first window (end >= s + w), the
\* windows are the documented ones
AutoWindowsWithRoomAsDocumented ==
  /\ AtWindows
  /\ AutoAccepted(configArgs)
  /\ DocumentedOverlap(configArgs) < DocumentedWidth(configArgs)
  /\ Len(configArgs.auto_window_params) >= 3
  /\ DocumentedEnd(configArgs, RefSeqLength) >=
       DocumentedStart(configArgs) + DocumentedWidth(configArgs)
  => /\ gend = "running"
     /\ WindowsMade =>
          ConfigWindowCoords = DocumentedAutoWindows(configArgs, RefSeqLength)

\* C26: for automatic windows that pass the checks (width > 0, start >= 1,
\* any overlap, one window fits) the loop that makes the windows ends with a
\* finite list of windows whose left edges are >= 1: every pass of the loop
\* moves the left edge of the next window to the right, towards the end.
C26_AutoWindowsTerminate ==
  [][AutoWindowsStep => NextStart' > NextStart /\ NextStart >= 1]_vars

\* what does hold: with an overlap below the width every pass moves on
AutoWindowsAdvanceBelowWidth ==
  [][AutoWindowsStep /\ DocumentedOverlap(configArgs) < DocumentedWidth(configArgs)
       => NextStart' > NextStart /\ NextStart >= 1]_vars
\* every window made has its left edge below its right edge
AutoWindowsLeftBelowRight ==
  [][AutoWindowsStep => NextStart < NextEnd]_vars

(***************************************************************************)
(* SpecFinish: the end of each iteration of the window loop, from the      *)
(* reads of the window (line 1511) through the alignment, the second       *)
(* merging, the consensuses, the excision, the record of the exploration   *)
(* of window widths and the last check for duplicates (line 1788), to the  *)
(* table written after the loop (lines 1979-2013). What mafft leaves in    *)
(* FileForReads is not the script's to decide: any sequence can stand      *)
(* under each name. The variables merging_threshold, AllReadsInThisWindow  *)
(* and SeqAlignmentHere are those of SpecMerge.                            *)
(***************************************************************************)
\* the number of windows of a run in SpecFinish
MaxFinishWindows == 2

\* the options read at the end of an iteration: the excision needs the
\* external references (lines 476-480, 666-668), and --dont-check-duplicates
\* is left out with --explore-window-widths, where no duplicate is checked
\* anyway (line 604)
FinishOptions ==
  {o \in [ExploreWindowWidths : BOOLEAN, dont_check_duplicates : BOOLEAN,
          IncludeOtherRefs : BOOLEAN, ExcisePositions : BOOLEAN] :
     /\ o.ExcisePositions => o.IncludeOtherRefs
     /\ o.dont_check_duplicates => ~o.ExploreWindowWidths}

\* lines 385 and 604: CheckDuplicates
FinishCheckDuplicates ==
  ~finishArgs.dont_check_duplicates /\ ~finishArgs.ExploreWindowWidths

\* the dicts a sample hands over at the end of the extraction
FinishDicts(s) ==
  IF s = 1
    THEN UNION {[S -> 1..MaxCount] : S \in SUBSET ReadSeqs}
    ELSE {EmptyDict, SetKey(EmptyDict, <<"A", "C">>, 1)}
\* the sequences mafft can leave under a name
AlignedSeqs == ReadSeqs \cup {<<"A", GapChar>>}
\* the external reference as it is in every alignment of a window
FinishRefRow == [id |-> ExternalRefName, seq |-> <<"G", "G">>]
\* what FileForReads can hold after a call of mafft that went well: the
\* external references, if any, and a sequence under the name of each read
MafftOutputs(reads, IncludeOtherRefs) ==
  {(IF IncludeOtherRefs THEN <<FinishRefRow>> ELSE <<>>)
     \o [k \in 1..Len(reads) |-> [id |-> reads[k].id, seq |-> f[k]]] :
       f \in [1..Len(reads) -> AlignedSeqs]}

\* the alias in the name of a sequence of a sample, None for another name
\* (lines 1741-1743, 1771-1774)
AliasIn(id) ==
  IF /\ SampleRegexStart(id) > 0
     /\ SubSeq(id, 1, SampleRegexStart(id) - 1) \in Range(BamAliases)
    THEN SubSeq(id, 1, SampleRegexStart(id) - 1)
    ELSE None

\* lines 1753-1777: the aliases with more than one copy of a sequence
DuplicatedAliases(alignment) ==
  {alias \in {BamAliases[s] : s \in Samples} :
     \E i, j \in 1..Len(alignment) :
       /\ i # j
       /\ alignment[i].seq = alignment[j].seq
       /\ AliasIn(alignment[i].id) = alias
       /\ AliasIn(alignment[j].id) = alias}

\* lines 1738-1744: the number of sequences of each sample
NumUniqueReadsPerPatient(alignment) ==
  [s \in Samples |->
     Cardinality({k \in 1..Len(alignment) :
                    AliasIn(alignment[k].id) = BamAliases[s]})]

\* the symbols of the sequences of an alignment
SymbolsIn(alignment) ==
  {alignment[k].seq[pos] :
     k \in 1..Len(alignment), pos \in 1..AlignmentLength(alignment)}

\* lines 1144-1153: the counts of the bases of a sample at a position
BaseCounterDict(ReadsAndCounts, pos) ==
  [base \in {read[pos] : read \in DOMAIN ReadsAndCounts} |->
     SumOver(ReadsAndCounts,
             {read \in DOMAIN ReadsAndCounts : read[pos] = base})]
\* the place of a base in an order
PlaceIn(order, base) == CHOOSE i \in 1..Len(order) : order[i] = base
\* the base that comes last among the bases of the dict
LastBase(d, order) ==
  CHOOSE b \in DOMAIN d :
    \A c \in DOMAIN d \ {b} : PlaceIn(order, c) < PlaceIn(order, b)
\* lines 1157-1162: the first base, in the order of the items of the dict,
\* whose count no other base exceeds; the bases come in the given order
MostCommonBase(d, order) ==
  CHOOSE b \in DOMAIN d :
    \A c \in DOMAIN d \ {b} :
      \/ d[c] < d[b]
      \/ d[c] = d[b] /\ PlaceIn(order, b) < PlaceIn(order, c)
\* lines 1136-1172, the samples taken in the order of names
FindPatientsConsensuses(alignment, names, order) ==
  LET parts == ReadAlignedReadsIntoDicts(alignment, Len(alignment))
      SampleReadCounts == parts.SampleReadCounts
  IN  [k \in 1..Len(names) |->
         [id |-> names[k] \o <<"_count_">>
                   \o Str(TotalCount(SampleReadCounts[names[k]])),
          seq |-> [pos \in 1..AlignmentLength(alignment) |->
                     MostCommonBase(
                       BaseCounterDict(SampleReadCounts[names[k]], pos),
                       order)]]]
      \o parts.NonSampleSeqs
\* the consensuses the function can return, whatever the order of the items
\* of its dicts
ConsensusAlignments(alignment) ==
  LET parts == ReadAlignedReadsIntoDicts(alignment, Len(alignment))
  IN  {FindPatientsConsensuses(alignment, names, order) :
         names \in Orderings(DOMAIN parts.SampleReadCounts),
         order \in Orderings(SymbolsIn(alignment))}

InitFinish ==
  /\ qpc = "top"
  /\ finishArgs \in FinishOptions
  /\ qNumWindows = MaxFinishWindows
  /\ qwindow = 0
  /\ FileForReads = <<>>
  /\ ConsensusAlignment = <<>>
  /\ WindowWidthExplorationData = <<>>
  /\ mpc = "idle"
  /\ merging_threshold \in 0..MaxThreshold
  /\ min_read_count = 1
  /\ ReadDicts = <<>>
  /\ AllReadsInThisWindow = <<>>
  /\ SeqAlignmentHere = <<>>
  /\ lastMerged = <<>>
  /\ LoopIdle
  /\ ContamIdle
  /\ FlowIdle
  /\ WindowIdle
  /\ ParIdle
  /\ CoordsIdle
  /\ NamesIdle
  /\ RecombIdle
  /\ ConfigIdle

\* 'continue', or the end of the loop body: on to the next window
LeaveWindow == qpc' = "top"
\* exit(1), or an exception nothing catches
FinishAbort == qpc' = "aborted"
\* on to the next step of the iteration
FinishGoOn(where) == qpc' = where
\* what no step of SpecFinish changes
FinishFrame ==
  <<finishArgs, qNumWindows, mpc, merging_threshold, min_read_count,
    ReadDicts, lastMerged, beyondFinish>>

\* lines 1189-1507: an iteration begins and the reads of its window are
\* extracted, processed and named
GatherReads ==
  /\ qpc = "top"
  /\ qwindow < qNumWindows
  /\ qwindow' = qwindow + 1
  /\ \E d1 \in FinishDicts(1), d2 \in FinishDicts(2) :
       \E o1 \in SortedByCount(d1), o2 \in SortedByCount(d2) :
         AllReadsInThisWindow' =
           ProcessReadDict(d1, 1, o1) \o ProcessReadDict(d2, 2, o2)
  /\ FileForReads' = <<>>
  /\ SeqAlignmentHere' = <<>>
  /\ ConsensusAlignment' = <<>>
  /\ FinishGoOn("reads")
  /\ UNCHANGED <<WindowWidthExplorationData, FinishFrame>>

\* lines 1738-1747 and 1514-1516, 1547-1553: a count for each alias
RecordsOf(w, counts) ==
  [s \in Samples |-> <<w, BamAliases[s], counts[s]>>]

\* lines 1511-1559: a window with no read, or with one read and no external
\* reference, is left
SkipSmallWindows ==
  /\ qpc = "reads"
  /\ IF AllReadsInThisWindow = <<>>
       THEN /\ WindowWidthExplorationData' =
                 IF finishArgs.ExploreWindowWidths
                   THEN WindowWidthExplorationData
                        \o RecordsOf(qwindow, [s \in Samples |-> 0])
                   ELSE WindowWidthExplorationData
            /\ LeaveWindow
       ELSE IF Len(AllReadsInThisWindow) = 1 /\ ~finishArgs.IncludeOtherRefs
              THEN /\ WindowWidthExplorationData' =
                        IF finishArgs.ExploreWindowWidths
                          THEN WindowWidthExplorationData
                               \o RecordsOf(qwindow,
                                    [s \in Samples |->
                                       IF BamAliases[s] =
                                            AliasIn(AllReadsInThisWindow[1].id)
                                         THEN 1 ELSE 0])
                          ELSE WindowWidthExplorationData
                   /\ LeaveWindow
              ELSE /\ FinishGoOn("refs")
                   /\ UNCHANGED WindowWidthExplorationData
  /\ UNCHANGED <<qwindow, AllReadsInThisWindow, FileForReads,
                 SeqAlignmentHere, ConsensusAlignment, FinishFrame>>

\* lines 1568-1596: the part of the external references in the window; the
\* window is left when they are all pure gap in it (with --pairwise-align-to,
\* lines 1579-1582) or when the tool that slices them fails (without, lines
\* 1593-1596)
FinishSliceOtherRefs ==
  /\ qpc = "refs"
  /\ IF ~finishArgs.IncludeOtherRefs
       THEN FinishGoOn("align")
       ELSE \E sliced \in BOOLEAN :
              IF sliced THEN FinishGoOn("align") ELSE LeaveWindow
  /\ UNCHANGED <<qwindow, AllReadsInThisWindow, FileForReads,
                 SeqAlignmentHere, ConsensusAlignment,
                 WindowWidthExplorationData, FinishFrame>>

\* lines 1605-1627: mafft is called; a failed call leaves the window
FinishCallMafft ==
  /\ qpc = "align"
  /\ \E outcome \in ToolOutcomes :
       IF outcome = "fail"
         THEN /\ LeaveWindow
              /\ UNCHANGED FileForReads
         ELSE /\ FileForReads' \in
                   IF outcome = "ok"
                     THEN MafftOutputs(AllReadsInThisWindow,
                                       finishArgs.IncludeOtherRefs)
                     ELSE {<<>>}
              /\ FinishGoOn("read")
  /\ UNCHANGED <<qwindow, AllReadsInThisWindow, SeqAlignmentHere,
                 ConsensusAlignment, WindowWidthExplorationData, FinishFrame>>

\* lines 1636-1642: AlignIO.read raises on a file that holds no alignment
FinishReadAlignedReads ==
  /\ qpc = "read"
  /\ IF FileForReads = <<>>
       THEN /\ FinishAbort
            /\ UNCHANGED SeqAlignmentHere
       ELSE /\ SeqAlignmentHere' = FileForReads
            /\ FinishGoOn("remerge")
  /\ UNCHANGED <<qwindow, AllReadsInThisWindow, FileForReads,
                 ConsensusAlignment, WindowWidthExplorationData, FinishFrame>>

\* lines 1646-1653: the second round of merging, with MergeReads
FinishReMerge ==
  /\ qpc = "remerge"
  /\ IF MergeReads
       THEN \E orders \in SortedOrders(ReMergedDicts(SeqAlignmentHere)) :
              SeqAlignmentHere' = ReMergeAlignedReads(SeqAlignmentHere, orders)
       ELSE UNCHANGED SeqAlignmentHere
  /\ FinishGoOn("consensus")
  /\ UNCHANGED <<qwindow, AllReadsInThisWindow, FileForReads,
                 ConsensusAlignment, WindowWidthExplorationData, FinishFrame>>

\* lines 1656-1659
FindConsensuses ==
  /\ qpc = "consensus"
  /\ ConsensusAlignment' \in ConsensusAlignments(SeqAlignmentHere)
  /\ FinishGoOn("excise")
  /\ UNCHANGED <<qwindow, AllReadsInThisWindow, FileForReads,
                 SeqAlignmentHere, WindowWidthExplorationData, FinishFrame>>

\* lines 1661-1734: a position of the window, if one is to be excised, is
\* taken out of the alignment, the reads are merged again whatever the
\* threshold and the consensuses are found again; the reference for the
\* excision is in the alignment as expected
ExcisePosition ==
  /\ qpc = "excise"
  /\ \E InThisWindow \in BOOLEAN :
       IF /\ finishArgs.ExcisePositions
          /\ InThisWindow
          /\ AlignmentLength(SeqAlignmentHere) > 0
         THEN \E pos \in 1..AlignmentLength(SeqAlignmentHere) :
                LET excised == WithoutColumn(SeqAlignmentHere, pos)
                IN  /\ \E orders \in SortedOrders(ReMergedDicts(excised)) :
                         SeqAlignmentHere' =
                           ReMergeAlignedReads(excised, orders)
                    /\ ConsensusAlignment' \in
                         ConsensusAlignments(SeqAlignmentHere')
         ELSE UNCHANGED <<SeqAlignmentHere, ConsensusAlignment>>
  /\ FinishGoOn("explore")
  /\ UNCHANGED <<qwindow, AllReadsInThisWindow, FileForReads,
                 WindowWidthExplorationData, FinishFrame>>

\* lines 1736-1748: with --explore-window-widths the number of sequences of
\* each sample is recorded and the window is left
RecordExploration ==
  /\ qpc = "explore"
  /\ IF finishArgs.ExploreWindowWidths
       THEN /\ WindowWidthExplorationData' =
                 WindowWidthExplorationData
                 \o RecordsOf(qwindow,
                              NumUniqueReadsPerPatient(SeqAlignmentHere))
            /\ LeaveWindow
       ELSE /\ FinishGoOn("duplicates")
            /\ UNCHANGED WindowWidthExplorationData
  /\ UNCHANGED <<qwindow, AllReadsInThisWindow, FileForReads,
                 SeqAlignmentHere, ConsensusAlignment, FinishFrame>>

\* lines 1750-1788: the check for a sequence that a sample has twice
CheckFinalDuplicates ==
  /\ qpc = "duplicates"
  /\ IF /\ FinishCheckDuplicates
        /\ Len(SeqAlignmentHere) > 1
        /\ DuplicatedAliases(SeqAlignmentHere) # {}
       THEN FinishAbort
       ELSE FinishGoOn("trees")
  /\ UNCHANGED <<qwindow, AllReadsInThisWindow, FileForReads,
                 SeqAlignmentHere, ConsensusAlignment,
                 WindowWidthExplorationData, FinishFrame>>

\* lines 1798-1935: the recombination report and the trees of the window are
\* written, unless a tool fails
WriteWindowResults ==
  /\ qpc = "trees"
  /\ \E outcome \in {"ok", "fail"} :
       IF outcome = "ok"
         THEN LeaveWindow
         ELSE LeaveWindow
  /\ UNCHANGED <<qwindow, AllReadsInThisWindow, FileForReads,
                 SeqAlignmentHere, ConsensusAlignment,
                 WindowWidthExplorationData, FinishFrame>>

\* lines 1189 and 1979-2013: no window is left; with --explore-window-widths
\* the table is written
FinishEndOfWindows ==
  /\ qpc = "top"
  /\ qwindow = qNumWindows
  /\ FinishGoOn("done")
  /\ UNCHANGED <<qwindow, AllReadsInThisWindow, FileForReads,
                 SeqAlignmentHere, ConsensusAlignment,
                 WindowWidthExplorationData, FinishFrame>>

NextFinish ==
  \/ GatherReads
  \/ SkipSmallWindows
  \/ FinishSliceOtherRefs
  \/ FinishCallMafft
  \/ FinishReadAlignedReads
  \/ FinishReMerge
  \/ FindConsensuses
  \/ ExcisePosition
  \/ RecordExploration
  \/ CheckFinalDuplicates
  \/ WriteWindowResults
  \/ FinishEndOfWindows

SpecFinish == InitFinish /\ [][NextFinish]_vars

(***************************************************************************)
(* Properties of the end of an iteration, checked under SpecFinish.        *)
(***************************************************************************)
\* C23: a window whose final alignment holds a sequence twice under the
\* alias of one sample stops the run: no results are written for such a
\* window and the loop does not go on to the next window with it, whatever
\* the options.
C23_DuplicateInSampleAborts ==
  qpc \in {"trees", "top", "done"} =>
    DuplicatedAliases(SeqAlignmentHere) = {}
\* what does hold: it is so when the duplicates are checked, i.e. without
\* --dont-check-duplicates and without --explore-window-widths
DuplicateInSampleAbortsWhenChecked ==
  FinishCheckDuplicates => C23_DuplicateInSampleAborts

\* nor is it so with the exploration left aside: --dont-check-duplicates alone
\* lets such a window through to its results
DuplicateInSampleAbortsUnlessExploring ==
  ~finishArgs.ExploreWindowWidths => C23_DuplicateInSampleAborts

\* the records of the exploration for a window and a sample
RecordsFor(w, s) ==
  {i \in 1..Len(WindowWidthExplorationData) :
     /\ WindowWidthExplorationData[i][1] = w
     /\ WindowWidthExplorationData[i][2] = BamAliases[s]}
\* C30: with --explore-window-widths, when the window loop has ended, one
\* count and no more has been recorded for every window and every sample,
\* whichever way each window was left.
C30_OneCountPerWindowAndSample ==
  (qpc = "done" /\ finishArgs.ExploreWindowWidths) =>
    \A w \in 1..qNumWindows : \A s \in Samples :
      Cardinality(RecordsFor(w, s)) = 1

\* what does hold: no window has two counts for a sample
ExplorationCountsAtMostOnce ==
  \A w \in 1..qNumWindows : \A s \in Samples :
    Cardinality(RecordsFor(w, s)) <= 1

\* and a window left for want of reads (lines 1512-1547) or at the record of
\* line 1745 has one for each sample
ExplorationCountsWhereRecorded ==
  [][(/\ finishArgs.ExploreWindowWidths
      /\ (SkipSmallWindows /\ qpc' = "top") \/ RecordExploration) =>
       \A s \in Samples :
         Cardinality(
           {i \in 1..Len(WindowWidthExplorationData') :
              /\ WindowWidthExplorationData'[i][1] = qwindow
              /\ WindowWidthExplorationData'[i][2] = BamAliases[s]}) = 1
    ]_vars

\* every row of the alignment holds a gap at the column
PureGapColumn(alignment, column) ==
  \A k \in 1..Len(alignment) : alignment[k].seq[column] = GapChar
\* the columns that are not pure gap
NonGapColumns(alignment) ==
  {c \in 1..AlignmentLength(alignment) : ~PureGapColumn(alignment, c)}
\* the i-th of them from the left
NonGapColumn(alignment, i) ==
  CHOOSE c \in NonGapColumns(alignment) :
    Cardinality({d \in NonGapColumns(alignment) : d <= c}) = i
\* the result of RemovePureGapCols set against the alignment it is given
PureGapColsRemoved(alignment) ==
  LET result == RemovePureGapCols(alignment)
  IN  /\ Len(result) = Len(alignment)
      /\ \A k \in 1..Len(alignment) :
           /\ result[k].id = alignment[k].id
           /\ result[k].seq =
                [i \in 1..Cardinality(NonGapColumns(alignment)) |->
                   alignment[k].seq[NonGapColumn(alignment, i)]]
      /\ \A c \in 1..AlignmentLength(result) : ~PureGapColumn(result, c)
      /\ RemovePureGapCols(result) = result
\* C28: RemovePureGapCols returns the same rows in the same order, with
\* exactly the columns in which some row holds a symbol other than a gap,
\* in their order; the result has no pure-gap column and the function leaves
\* it as it is. So it is for every alignment mafft leaves and every alignment
\* of the steps after, and after the second merging, which ends with the
\* call of the function (lines 1131-1133), no column is pure gap.
C28_PureGapColumnsRemoved ==
  /\ PureGapColsRemoved(FileForReads)
  /\ PureGapColsRemoved(SeqAlignmentHere)
  /\ (qpc = "consensus" /\ MergeReads /\ SeqAlignmentHere # <<>>) =>
       NonGapColumns(SeqAlignmentHere) =
         1..AlignmentLength(SeqAlignmentHere)
\* mafft left no pure-gap column, the second merging made one (a read with a
\* gap took in the reads without) and the function removed it
C28_Witness ==
  /\ qpc = "consensus"
  /\ MergeReads
  /\ AlignmentLength(FileForReads) = 2
  /\ NonGapColumns(FileForReads) = {1, 2}
  /\ Len(SeqAlignmentHere) >= 1
  /\ AlignmentLength(SeqAlignmentHere) = 1

\* the rows of the alignment that are sequences of the sample alias
RowsOfAlias(alignment, alias) ==
  {k \in 1..Len(alignment) : AliasIn(alignment[k].id) = alias}
\* the rows that are sequences of no sample, in their order
OtherRows(alignment) ==
  LET others == {k \in 1..Len(alignment) : AliasIn(alignment[k].id) = None}
  IN  [i \in 1..Cardinality(others) |->
         alignment[CHOOSE k \in others :
                     Cardinality({l \in others : l <= k}) = i]]
\* the total count of the rows of rows that hold sym at the column
SymbolCount(alignment, rows, column, sym) ==
  SumOver([k \in rows |-> CountFromName(alignment[k].id)],
          {k \in rows : alignment[k].seq[column] = sym})
\* the aliases that have a row in the alignment
AliasesIn(alignment) ==
  {alias \in {BamAliases[s] : s \in Samples} :
     RowsOfAlias(alignment, alias) # {}}
\* the consensuses have been found for the alignment as it is now
ConsensusesFound == qpc \in {"excise", "explore", "duplicates", "trees"}
\* C29: for every sample of the alignment FindPatientsConsensuses returns
\* one sequence, named '<sample>_count_<N>' with N the sum of the counts of
\* the sample's reads, of the length of the alignment, which holds at each
\* column a symbol (a base or a gap) whose total count over the reads of the
\* sample no other symbol exceeds; the sequences that belong to no sample
\* follow the consensuses, unchanged.
C29_ConsensusOfEachSample ==
  ConsensusesFound =>
    LET aln == SeqAlignmentHere
        n == Cardinality(AliasesIn(aln))
    IN  /\ Len(ConsensusAlignment) = n + Len(OtherRows(aln))
        /\ \A alias \in AliasesIn(aln) :
             LET rows == RowsOfAlias(aln, alias)
                 N == SumOver([k \in rows |-> CountFromName(aln[k].id)], rows)
                 found == {i \in 1..n :
                             ConsensusAlignment[i].id =
                               alias \o <<"_count_">> \o Str(N)}
             IN  /\ Cardinality(found) = 1
                 /\ \A i \in found :
                      /\ Len(ConsensusAlignment[i].seq) = AlignmentLength(aln)
                      /\ \A c \in 1..AlignmentLength(aln) :
                           \A sym \in SymbolsIn(aln) :
                             SymbolCount(aln, rows, c, sym) <=
                               SymbolCount(aln, rows, c,
                                           ConsensusAlignment[i].seq[c])
        /\ \A i \in 1..Len(OtherRows(aln)) :
             ConsensusAlignment[n + i] = OtherRows(aln)[i]
\* the first sample has a read of count 1 and a read of count 2 that differ
\* at the second column, and the consensus takes the symbol of the second;
\* the external reference follows the consensus
C29_Witness ==
  /\ qpc = "excise"
  /\ finishArgs.IncludeOtherRefs
  /\ \E k, l \in RowsOfAlias(SeqAlignmentHere, BamAliases[1]) :
       /\ CountFromName(SeqAlignmentHere[k].id) = 1
       /\ CountFromName(SeqAlignmentHere[l].id) = 2
       /\ SeqAlignmentHere[k].seq[2] # SeqAlignmentHere[l].seq[2]
       /\ ConsensusAlignment[1].seq[2] = SeqAlignmentHere[l].seq[2]
  /\ ConsensusAlignment[Len(ConsensusAlignment)] = FinishRefRow
====
